---- MODULE Spec2Model ----
(***************************************************************************)
(* Educational RSA for alphabetic messages (RSA.py) and the tested copy    *)
(* of its arithmetic (test_rsa.py).                                        *)
(*                                                                         *)
(* Text is a sequence of code points (ord), a digit string is a sequence   *)
(* of decimal digits 0..9, a block is a pair <<value, letter_count>>.      *)
(* A call that raises is the record [kind |-> "raise", exc |-> ...]; a     *)
(* call that returns is [kind |-> "return", val |-> ...].                  *)
(***************************************************************************)
EXTENDS Integers, Sequences, FiniteSets, TLC

VARIABLES
    pc,                     \* position of the run (demo_rsa) or of the call
    p, q, m, e,             \* key material of the run
    original_message,       \* demo_rsa: the text to encrypt
    numeric_repr,           \* demo_rsa: map_text_to_numbers(original_message)
    blocks,                 \* demo_rsa: split_into_blocks(numeric_repr, m)
    encrypted,              \* demo_rsa: encrypt_blocks(blocks, e, m)
    phi, d,                 \* demo_rsa: validate_keys' phi, modinv(e, phi)
    decrypted,              \* demo_rsa: decrypt_blocks(encrypted, d, m)
    reconstructed_numeric,  \* demo_rsa: reconstruct_numeric_string(decrypted)
    decrypted_message,      \* demo_rsa: map_numbers_to_text(reconstructed_numeric)
    fn, args, ret,          \* a single library call: function, arguments, outcome
    mr,                     \* is_probable_prime: rounds passed and the base drawn last;
                            \* validate_keys: what the primality test answered
    scan                    \* split_into_blocks: the position i and the passes made

runVars == <<p, q, m, e, original_message, numeric_repr, blocks, encrypted,
             phi, d, decrypted, reconstructed_numeric, decrypted_message>>
callVars == <<fn, args, ret>>
vars == <<pc, runVars, callVars, mr, scan>>

(***************************************************************************)
(* Bounds of the model.                                                    *)
(***************************************************************************)
MaxLetters == 3      \* letters of a message
MaxGroups == 3       \* 2-digit groups of a digit string handed to the packer
MaxAbs == 7          \* |a|, |b| of extended_gcd; |a| of modinv
MaxMod == 9          \* modulus of modinv and of a modular exponentiation call
MaxBase == 6         \* base of a modular exponentiation call
MaxExp == 6          \* exponent of a modular exponentiation call
MaxE == 7            \* public exponent of a run
MaxCandidate == 30   \* candidate n of a primality test (besides the named ones)
MaxRounds == 3       \* round count k of a primality test (besides the default)
MaxBlocks == 3       \* blocks of a list handed to encrypt_blocks or decrypt_blocks
MaxKey == 30         \* |a|, |b| of the affine cipher's keys
MaxPasses == 4       \* passes of the packer's outer loop that are counted

(***************************************************************************)
(* Python's integer arithmetic: // rounds towards minus infinity and %     *)
(* takes the sign of the divisor; both raise ZeroDivisionError on 0.       *)
(***************************************************************************)
PyFloorDiv(a, b) == IF b > 0 THEN a \div b ELSE (-a) \div (-b)

PyMod(a, b) == a - b * PyFloorDiv(a, b)

Abs(a) == IF a < 0 THEN -a ELSE a

Return(v) == [kind |-> "return", val |-> v]

Raise(x) == [kind |-> "raise", exc |-> x]

(***************************************************************************)
(* int(digits), str(n) and str.zfill(width) on digit sequences.            *)
(***************************************************************************)
RECURSIVE int(_)
int(ds) == IF ds = <<>> THEN 0
           ELSE 10 * int(SubSeq(ds, 1, Len(ds) - 1)) + ds[Len(ds)]

RECURSIVE str(_)
str(n) == IF n < 10 THEN <<n>> ELSE str(n \div 10) \o <<n % 10>>

\* a zfill that pads nothing
zfill_without_padding(ds, width) == ds

zfill(ds, width) == [i \in 1..(width - Len(ds)) |-> 0] \o ds

(***************************************************************************)
(* Code points: ord('A') = 65 .. ord('Z') = 90, ord('a') = 97 ..           *)
(* ord('z') = 122; 209 and 241 are the letters N-tilde (upper, lower), 223 *)
(* is the sharp s and 383 the long s: all four are alphabetic for          *)
(* str.isalpha but outside A-Z.  Every other code point of the model       *)
(* (digits, blank, punctuation) is not alphabetic.  A string is a sequence *)
(* of code points.                                                         *)
(***************************************************************************)
ordA == 65

ordZ == 90

isalpha(c) == c \in (65..90) \cup (97..122) \cup {209, 241, 223, 383}

\* str.upper() of one character: a string, of two characters for the sharp s ("SS")
upper(c) ==
    IF c \in 97..122 THEN <<c - 32>>
    ELSE IF c = 241 THEN <<209>>
    ELSE IF c = 223 THEN <<83, 83>>
    ELSE IF c = 383 THEN <<83>>
    ELSE <<c>>

\* s <= t for strings: the lexicographic order of the code points
RECURSIVE str_le(_, _)
str_le(s, t) ==
    IF s = <<>> THEN TRUE
    ELSE IF t = <<>> THEN FALSE
    ELSE IF Head(s) # Head(t) THEN Head(s) < Head(t)
    ELSE str_le(Tail(s), Tail(t))

\* an encoding that counts from A = 01
RECURSIVE map_text_loop_from_one(_, _)
map_text_loop_from_one(numeric_str, text) ==
    IF text = <<>> THEN Return(numeric_str)
    ELSE IF ~isalpha(Head(text)) THEN map_text_loop_from_one(numeric_str, Tail(text))
    ELSE LET char == upper(Head(text))
         IN  IF str_le(<<ordA>>, char) /\ str_le(char, <<ordZ>>)
             THEN IF Len(char) # 1 THEN Raise("TypeError")
                  ELSE map_text_loop_from_one(
                           numeric_str \o zfill(str(char[1] - ordA + 1), 2), Tail(text))
             ELSE map_text_loop_from_one(numeric_str, Tail(text))

(***************************************************************************)
(* map_text_to_numbers: the loop over the characters.  A character that is *)
(* not alphabetic is skipped; char = char.upper() is a string, compared    *)
(* with 'A' and 'Z' as strings; ord(char) raises TypeError when char has   *)
(* not exactly one character.                                              *)
(***************************************************************************)
RECURSIVE map_text_loop(_, _)
map_text_loop(numeric_str, text) ==
    IF text = <<>> THEN Return(numeric_str)
    ELSE IF ~isalpha(Head(text)) THEN map_text_loop(numeric_str, Tail(text))
    ELSE LET char == upper(Head(text))
         IN  IF str_le(<<ordA>>, char) /\ str_le(char, <<ordZ>>)
             THEN IF Len(char) # 1 THEN Raise("TypeError")
                  ELSE LET numeric_value == char[1] - ordA
                       IN  map_text_loop(numeric_str \o zfill(str(numeric_value), 2),
                                         Tail(text))
             ELSE map_text_loop(numeric_str, Tail(text))

map_text_to_numbers(text) == map_text_loop(<<>>, text)

\* a decoding that lets the group 26 through
RECURSIVE map_numbers_to_text_up_to_26(_)
map_numbers_to_text_up_to_26(numeric_str) ==
    IF Len(numeric_str) < 2 THEN <<>>
    ELSE LET numeric_value == int(SubSeq(numeric_str, 1, 2))
             rest == map_numbers_to_text_up_to_26(SubSeq(numeric_str, 3, Len(numeric_str)))
         IN  IF 0 <= numeric_value /\ numeric_value <= 26
             THEN <<ordA + numeric_value>> \o rest
             ELSE rest

\* map_numbers_to_text: for i in range(0, len, 2), pairs with i + 1 < len only
RECURSIVE map_numbers_to_text(_)
map_numbers_to_text(numeric_str) ==
    IF Len(numeric_str) < 2 THEN <<>>
    ELSE LET numeric_value == int(SubSeq(numeric_str, 1, 2))
             rest == map_numbers_to_text(SubSeq(numeric_str, 3, Len(numeric_str)))
         IN  IF 0 <= numeric_value /\ numeric_value <= 25
             THEN <<ordA + numeric_value>> \o rest
             ELSE rest

\* clean_text: (cleaned, modified)
clean_text(text) ==
    LET RECURSIVE keep(_)
        keep(t) == IF t = <<>> THEN <<>>
                   ELSE IF isalpha(Head(t)) THEN upper(Head(t)) \o keep(Tail(t))
                        ELSE keep(Tail(t))
    IN  <<keep(text), text # keep(text)>>

(***************************************************************************)
(* The tested copy (test_rsa.py) of the codec: text_to_numbers upper-cases *)
(* the whole text first and then takes its characters one by one;          *)
(* numbers_to_text is map_numbers_to_text word for word.                   *)
(***************************************************************************)
\* str.upper() of a text
RECURSIVE upper_text(_)
upper_text(text) ==
    IF text = <<>> THEN <<>> ELSE upper(Head(text)) \o upper_text(Tail(text))

RECURSIVE text_to_numbers_loop(_, _)
text_to_numbers_loop(numeric_str, text) ==
    IF text = <<>> THEN numeric_str
    ELSE LET char == Head(text)
         IN  IF ordA <= char /\ char <= ordZ
             THEN text_to_numbers_loop(numeric_str \o zfill(str(char - ordA), 2),
                                       Tail(text))
             ELSE text_to_numbers_loop(numeric_str, Tail(text))

text_to_numbers(text) == text_to_numbers_loop(<<>>, upper_text(text))

RECURSIVE numbers_to_text(_)
numbers_to_text(numeric_str) ==
    IF Len(numeric_str) < 2 THEN <<>>
    ELSE LET value == int(SubSeq(numeric_str, 1, 2))
             rest == numbers_to_text(SubSeq(numeric_str, 3, Len(numeric_str)))
         IN  IF 0 <= value /\ value <= 25 THEN <<ordA + value>> \o rest ELSE rest

(***************************************************************************)
(* The affine cipher (02_cifrado_affin.py): C = (a*M + b) mod 26 and       *)
(* M = a_inv * (C - b) mod 26 on the letters A-Z.  The file has its own    *)
(* clean_text, gcd, extended_gcd and modular_inverse.                      *)
(***************************************************************************)
\* ''.join(c.upper() for c in text if c.isalpha() and c.upper() <= 'Z')
RECURSIVE afin_clean_text(_)
afin_clean_text(text) ==
    IF text = <<>> THEN <<>>
    ELSE IF isalpha(Head(text)) /\ str_le(upper(Head(text)), <<ordZ>>)
         THEN upper(Head(text)) \o afin_clean_text(Tail(text))
         ELSE afin_clean_text(Tail(text))

\* while b != 0: a, b = b, a % b; return abs(a)
RECURSIVE afin_gcd(_, _)
afin_gcd(a, b) == IF b = 0 THEN Abs(a) ELSE afin_gcd(b, PyMod(a, b))

RECURSIVE afin_extended_gcd(_, _)
afin_extended_gcd(a, b) ==
    IF b = 0 THEN <<Abs(a), IF a >= 0 THEN 1 ELSE -1, 0>>
    ELSE LET r == afin_extended_gcd(b, PyMod(a, b))
             gcd_val == r[1]
             x1 == r[2]
             y1 == r[3]
         IN  <<gcd_val, y1, x1 - PyFloorDiv(a, b) * y1>>

\* a modular_inverse that returns Bezout's coefficient of m in the place of a's
afin_modular_inverse_other_coefficient(a, mm) ==
    LET r == afin_extended_gcd(a, mm)
    IN  IF r[1] # 1 THEN Raise("ValueError") ELSE Return(PyMod(r[3], mm))

afin_modular_inverse(a, mm) ==
    LET r == afin_extended_gcd(a, mm)
    IN  IF r[1] # 1 THEN Raise("ValueError") ELSE Return(PyMod(r[2], mm))

is_valid_key_a(a) == afin_gcd(a, 26) = 1

\* for char in plaintext: c = (a * m + b) % 26; ciphertext += chr(c + ord('A'))
RECURSIVE afin_encrypt_loop(_, _, _, _)
afin_encrypt_loop(ciphertext, plaintext, a, b) ==
    IF plaintext = <<>> THEN ciphertext
    ELSE LET mm == Head(plaintext) - ordA
             c == PyMod(a * mm + b, 26)
         IN  afin_encrypt_loop(Append(ciphertext, c + ordA), Tail(plaintext), a, b)

afin_encrypt(plaintext, a, b) ==
    IF ~is_valid_key_a(a) THEN Raise("ValueError")
    ELSE Return(afin_encrypt_loop(<<>>, afin_clean_text(plaintext), a, b))

\* for char in ciphertext: m = (a_inv * (c - b)) % 26; plaintext += chr(m + ord('A'))
RECURSIVE afin_decrypt_loop(_, _, _, _)
afin_decrypt_loop(plaintext, ciphertext, a_inv, b) ==
    IF ciphertext = <<>> THEN plaintext
    ELSE LET c == Head(ciphertext) - ordA
             mm == PyMod(a_inv * (c - b), 26)
         IN  afin_decrypt_loop(Append(plaintext, mm + ordA), Tail(ciphertext), a_inv, b)

afin_decrypt(ciphertext, a, b) ==
    IF ~is_valid_key_a(a) THEN Raise("ValueError")
    ELSE LET a_inv == afin_modular_inverse(a, 26)
         IN  IF a_inv.kind = "raise" THEN a_inv
             ELSE Return(afin_decrypt_loop(<<>>, afin_clean_text(ciphertext),
                                           a_inv.val, b))

(***************************************************************************)
(* split_into_blocks.  The inner while grows current_block by whole        *)
(* 2-digit groups while int(test_block) < modulus.  A pass of the outer    *)
(* while that leaves current_block empty changes neither i nor blocks, so  *)
(* the loop repeats it for ever: that outcome is diverges = TRUE.          *)
(* i is the 0-based index of the source.                                   *)
(***************************************************************************)
\* an inner loop that lets a block reach the modulus: test_value <= modulus
RECURSIVE split_inner_up_to_modulus(_, _, _, _, _)
split_inner_up_to_modulus(numeric_str, modulus, i, current_block, letters_count) ==
    IF i < Len(numeric_str) /\ i + 1 < Len(numeric_str)
    THEN LET next_pair == SubSeq(numeric_str, i + 1, i + 2)
             test_block == current_block \o next_pair
             test_value == int(test_block)
         IN  IF test_value <= modulus
             THEN split_inner_up_to_modulus(numeric_str, modulus, i + 2, test_block,
                                            letters_count + 1)
             ELSE [i |-> i, current_block |-> current_block,
                   letters_count |-> letters_count]
    ELSE [i |-> i, current_block |-> current_block, letters_count |-> letters_count]

\* an inner loop that stops after one group, whether the next one fits or not
split_inner_one_group(numeric_str, modulus, i, current_block, letters_count) ==
    IF i + 1 < Len(numeric_str)
          /\ int(SubSeq(numeric_str, i + 1, i + 2)) < modulus
    THEN [i |-> i + 2, current_block |-> SubSeq(numeric_str, i + 1, i + 2),
          letters_count |-> 1]
    ELSE [i |-> i, current_block |-> current_block, letters_count |-> letters_count]

\* an inner loop that forgets i += 2
RECURSIVE split_inner_without_advance(_, _, _, _, _)
split_inner_without_advance(numeric_str, modulus, i, current_block, letters_count) ==
    IF i + 1 < Len(numeric_str) /\ letters_count < 1
    THEN LET test_block == current_block \o SubSeq(numeric_str, i + 1, i + 2)
         IN  IF int(test_block) < modulus
             THEN split_inner_without_advance(numeric_str, modulus, i, test_block,
                                              letters_count + 1)
             ELSE [i |-> i, current_block |-> current_block,
                   letters_count |-> letters_count]
    ELSE [i |-> i, current_block |-> current_block, letters_count |-> letters_count]

RECURSIVE split_inner(_, _, _, _, _)
split_inner(numeric_str, modulus, i, current_block, letters_count) ==
    IF i < Len(numeric_str) /\ i + 1 < Len(numeric_str)
    THEN LET next_pair == SubSeq(numeric_str, i + 1, i + 2)
             test_block == current_block \o next_pair
             test_value == int(test_block)
         IN  IF test_value < modulus
             THEN split_inner(numeric_str, modulus, i + 2, test_block, letters_count + 1)
             ELSE [i |-> i, current_block |-> current_block,
                   letters_count |-> letters_count]
    ELSE [i |-> i, current_block |-> current_block, letters_count |-> letters_count]

RECURSIVE split_outer(_, _, _, _)
split_outer(numeric_str, modulus, i, acc) ==
    IF i < Len(numeric_str)
    THEN LET r == split_inner(numeric_str, modulus, i, <<>>, 0)
         IN  IF r.current_block # <<>>
             THEN split_outer(numeric_str, modulus, r.i,
                              Append(acc, <<int(r.current_block), r.letters_count>>))
             ELSE [diverges |-> TRUE, blocks |-> acc]
    ELSE [diverges |-> FALSE, blocks |-> acc]

\* a packer whose letters_count starts at 1 instead of 0
split_into_blocks_count_from_one(numeric_str, modulus) ==
    LET r == split_outer(numeric_str, modulus, 0, <<>>)
    IN  [r EXCEPT !.blocks = [k \in 1..Len(r.blocks) |->
                                 <<r.blocks[k][1], r.blocks[k][2] + 1>>]]

split_into_blocks(numeric_str, modulus) == split_outer(numeric_str, modulus, 0, <<>>)

(***************************************************************************)
(* modular_exponentiation_traced (verbose = False): square-and-multiply.   *)
(* exp & 1 is the low bit and exp >>= 1 halves; the base is squared only   *)
(* while bits remain.  base % mod raises ZeroDivisionError for mod = 0.    *)
(***************************************************************************)
RECURSIVE modexp_loop(_, _, _, _)
modexp_loop(result, base, exp, mod) ==
    IF exp > 0
    THEN LET result1 == IF exp % 2 = 1 THEN PyMod(result * base, mod) ELSE result
             exp1 == exp \div 2
             base1 == IF exp1 > 0 THEN PyMod(base * base, mod) ELSE base
         IN  modexp_loop(result1, base1, exp1, mod)
    ELSE result

\* square-and-multiply whose product is not reduced: result = result * base
RECURSIVE modexp_loop_unreduced(_, _, _, _)
modexp_loop_unreduced(result, base, exp, mod) ==
    IF exp > 0
    THEN LET result1 == IF exp % 2 = 1 THEN result * base ELSE result
             exp1 == exp \div 2
             base1 == IF exp1 > 0 THEN PyMod(base * base, mod) ELSE base
         IN  modexp_loop_unreduced(result1, base1, exp1, mod)
    ELSE result

modular_exponentiation_unreduced_product(base, exp, mod) ==
    IF mod = 0 THEN Raise("ZeroDivisionError")
    ELSE Return(modexp_loop_unreduced(1, PyMod(base, mod), exp, mod))

\* an exponentiation that reduces once more on the way out: return result % mod
modular_exponentiation_reduced_result(base, exp, mod) ==
    IF mod = 0 THEN Raise("ZeroDivisionError")
    ELSE Return(PyMod(modexp_loop(1, PyMod(base, mod), exp, mod), mod))

modular_exponentiation_traced(base, exp, mod) ==
    IF mod = 0 THEN Raise("ZeroDivisionError")
    ELSE Return(modexp_loop(1, PyMod(base, mod), exp, mod))

\* an encryption loop that puts every new block in front: encrypted.insert(0, ...)
RECURSIVE encrypt_loop_prepending(_, _, _, _)
encrypt_loop_prepending(acc, rest, ee, mm) ==
    IF rest = <<>> THEN acc
    ELSE LET M == Head(rest)[1]
             num_letters == Head(rest)[2]
             C == modular_exponentiation_traced(M, ee, mm).val
         IN  encrypt_loop_prepending(<<<<C, num_letters>>>> \o acc, Tail(rest), ee, mm)

\* for (M, num_letters) in blocks: C = M^e mod m; encrypted.append((C, num_letters))
RECURSIVE encrypt_loop(_, _, _, _)
encrypt_loop(acc, rest, ee, mm) ==
    IF rest = <<>> THEN acc
    ELSE LET M == Head(rest)[1]
             num_letters == Head(rest)[2]
             C == modular_exponentiation_traced(M, ee, mm).val
         IN  encrypt_loop(Append(acc, <<C, num_letters>>), Tail(rest), ee, mm)

\* encrypt_blocks: encrypted = []; the loop; return encrypted
encrypt_blocks(bs, ee, mm) == encrypt_loop(<<>>, bs, ee, mm)

\* for (C, num_letters) in encrypted_blocks: M = C^d mod m; decrypted.append((M, num_letters))
RECURSIVE decrypt_loop(_, _, _, _)
decrypt_loop(acc, rest, dd, mm) ==
    IF rest = <<>> THEN acc
    ELSE LET C == Head(rest)[1]
             num_letters == Head(rest)[2]
             M == modular_exponentiation_traced(C, dd, mm).val
         IN  decrypt_loop(Append(acc, <<M, num_letters>>), Tail(rest), dd, mm)

\* decrypt_blocks: decrypted = []; the loop; return decrypted
decrypt_blocks(encrypted_blocks, dd, mm) == decrypt_loop(<<>>, encrypted_blocks, dd, mm)

\* an extended Euclid with the wrong coefficient: y = x1 - (a // b) * x1
RECURSIVE extended_gcd_wrong_coefficient(_, _)
extended_gcd_wrong_coefficient(a, b) ==
    IF b = 0 THEN <<a, 1, 0>>
    ELSE LET r == extended_gcd_wrong_coefficient(b, PyMod(a, b))
         IN  <<r[1], r[3], r[2] - PyFloorDiv(a, b) * r[2]>>

(***************************************************************************)
(* extended_gcd (RSA.py): the base case returns (a, 1, 0) as it stands.    *)
(***************************************************************************)
RECURSIVE extended_gcd(_, _)
extended_gcd(a, b) ==
    IF b = 0 THEN <<a, 1, 0>>
    ELSE LET r == extended_gcd(b, PyMod(a, b))
             gcd_val == r[1]
             x1 == r[2]
             y1 == r[3]
         IN  <<gcd_val, y1, x1 - PyFloorDiv(a, b) * y1>>

\* a modinv that returns Bezout's coefficient as it is, without d % phi
modinv_without_reduction(ee, ph) ==
    LET r == extended_gcd(ee, ph)
    IN  IF r[1] # 1 THEN Raise("ValueError") ELSE Return(r[2])

\* a modinv that never looks at the gcd
modinv_without_check(ee, ph) ==
    IF ph = 0 THEN Raise("ZeroDivisionError")
    ELSE Return(PyMod(extended_gcd(ee, ph)[2], ph))

\* modinv: ValueError when the gcd found is not 1, else d % phi
modinv(ee, ph) ==
    LET r == extended_gcd(ee, ph)
    IN  IF r[1] # 1 THEN Raise("ValueError")
        ELSE IF ph = 0 THEN Raise("ZeroDivisionError")
        ELSE Return(PyMod(r[2], ph))

\* a reconstruction that forgets the padding: str(M) per block
RECURSIVE reconstruct_without_padding(_)
reconstruct_without_padding(decrypted_blocks) ==
    IF decrypted_blocks = <<>> THEN <<>>
    ELSE str(Head(decrypted_blocks)[1])
             \o reconstruct_without_padding(Tail(decrypted_blocks))

\* reconstruct_numeric_string: str(M).zfill(2 * num_letters) per block, in order
RECURSIVE reconstruct_numeric_string(_)
reconstruct_numeric_string(decrypted_blocks) ==
    IF decrypted_blocks = <<>> THEN <<>>
    ELSE LET M == Head(decrypted_blocks)[1]
             num_letters == Head(decrypted_blocks)[2]
             expected_length == num_letters * 2
         IN  zfill(str(M), expected_length)
                 \o reconstruct_numeric_string(Tail(decrypted_blocks))

(***************************************************************************)
(* The tested copy (test_rsa.py): its extended_gcd takes |a| and sign(a)   *)
(* in the base case.                                                       *)
(***************************************************************************)
RECURSIVE test_extended_gcd(_, _)
test_extended_gcd(a, b) ==
    IF b = 0 THEN <<Abs(a), IF a >= 0 THEN 1 ELSE -1, 0>>
    ELSE LET r == test_extended_gcd(b, PyMod(a, b))
         IN  <<r[1], r[3], r[2] - PyFloorDiv(a, b) * r[3]>>

(***************************************************************************)
(* is_probable_prime (Miller-Rabin, k = 10 rounds).  random.randrange      *)
(* draws every base from 2..n-2, independently per round, so the same base *)
(* may be drawn in all rounds: True is a possible result iff some base     *)
(* passes a round, False iff some base fails one.                          *)
(***************************************************************************)
\* the builtin pow(a, d, n) for d >= 0, n >= 1: a^d mod n, by halving d
RECURSIVE pow(_, _, _)
pow(a, dd, n) ==
    IF dd = 0 THEN 1 % n
    ELSE LET h == pow(a, dd \div 2, n)
             sq == (h * h) % n
         IN  IF dd % 2 = 1 THEN (sq * (a % n)) % n ELSE sq

\* r, d = 0, n - 1; while d % 2 == 0: r += 1; d //= 2
RECURSIVE mr_decompose(_, _)
mr_decompose(r, dd) == IF dd % 2 = 0 THEN mr_decompose(r + 1, dd \div 2)
                       ELSE <<r, dd>>

\* the squarings without the else of the for: a loop that runs out passes too
RECURSIVE mr_squarings_without_else(_, _, _)
mr_squarings_without_else(x, n, left) ==
    IF left = 0 THEN TRUE
    ELSE LET x2 == pow(x, 2, n)
         IN  IF x2 = n - 1 THEN TRUE ELSE mr_squarings_without_else(x2, n, left - 1)

\* for _ in range(r - 1): x = pow(x, 2, n); if x == n - 1: break   (else: fail)
RECURSIVE mr_squarings(_, _, _)
mr_squarings(x, n, left) ==
    IF left = 0 THEN FALSE
    ELSE LET x2 == pow(x, 2, n)
         IN  IF x2 = n - 1 THEN TRUE ELSE mr_squarings(x2, n, left - 1)

\* a round that forgets x == n - 1 before the squarings
mr_round_without_minus_one(n, a) ==
    LET rd == mr_decompose(0, n - 1)
        x == pow(a, rd[2], n)
    IN  IF x = 1 THEN TRUE
        ELSE mr_squarings(x, n, rd[1] - 1)

\* a round of Fermat's test instead: a^(n-1) mod n == 1
mr_round_fermat(n, a) == pow(a, n - 1, n) = 1

\* one round with base a: TRUE when the round does not return False
mr_round(n, a) ==
    LET rd == mr_decompose(0, n - 1)
        x == pow(a, rd[2], n)
    IN  IF x = 1 \/ x = n - 1 THEN TRUE
        ELSE mr_squarings(x, n, rd[1] - 1)

\* the set of results is_probable_prime(n) can give
is_probable_prime(n) ==
    IF n < 2 THEN {FALSE}
    ELSE IF n = 2 \/ n = 3 THEN {TRUE}
    ELSE IF n % 2 = 0 THEN {FALSE}
    ELSE {b \in BOOLEAN : \E a \in 2..(n - 2) : mr_round(n, a) = b}

\* math.gcd: the non-negative greatest common divisor
RECURSIVE gcd(_, _)
gcd(a, b) == IF b = 0 THEN Abs(a) ELSE gcd(b, PyMod(a, b))

\* a validate_keys that tests gcd(e, phi) before the product p * q
validate_keys_gcd_before_product(pp, qq, mm, ee, p_prime, q_prime) ==
    IF ~p_prime THEN <<FALSE, 0, <<"p no parece ser primo", pp>>>>
    ELSE IF ~q_prime THEN <<FALSE, 0, <<"q no parece ser primo", qq>>>>
    ELSE LET ph == (pp - 1) * (qq - 1)
         IN  IF gcd(ee, ph) # 1
             THEN <<FALSE, ph, <<"gcd(e, phi) != 1", ee, ph, gcd(ee, ph)>>>>
             ELSE IF pp * qq # mm THEN <<FALSE, 0, <<"p*q != m", pp * qq, mm>>>>
             ELSE <<TRUE, ph, <<"Claves validas">>>>

(***************************************************************************)
(* validate_keys, given the answers of is_probable_prime for p and for q:  *)
(* the tuple (es_valido, phi, mensaje_error); phi is None (here 0) before  *)
(* it is computed.  A message is its text followed by the values that the  *)
(* f-string puts into it.                                                  *)
(***************************************************************************)
validate_keys(pp, qq, mm, ee, p_prime, q_prime) ==
    IF ~p_prime THEN <<FALSE, 0, <<"p no parece ser primo", pp>>>>
    ELSE IF ~q_prime THEN <<FALSE, 0, <<"q no parece ser primo", qq>>>>
    ELSE IF pp * qq # mm THEN <<FALSE, 0, <<"p*q != m", pp * qq, mm>>>>
    ELSE LET ph == (pp - 1) * (qq - 1)
             gcd_val == gcd(ee, ph)
         IN  IF gcd_val # 1
             THEN <<FALSE, ph, <<"gcd(e, phi) != 1", ee, ph, gcd_val>>>>
             ELSE <<TRUE, ph, <<"Claves validas">>>>

(***************************************************************************)
(* Inputs.                                                                 *)
(***************************************************************************)
\* all sequences over S of length at most n
RECURSIVE SeqsUpTo(_, _)
SeqsUpTo(S, n) ==
    IF n = 0 THEN {<<>>}
    ELSE LET shorter == SeqsUpTo(S, n - 1)
         IN  shorter \cup {Append(t, c) : t \in shorter, c \in S}

\* candidates for p and q of a run
RunPrimes == {2, 3, 5, 7, 11, 13}

\* characters of a message: 'A', 'Z', 'h'
MsgChars == {65, 90, 104}

Messages == SeqsUpTo(MsgChars, MaxLetters)

\* digits of a digit string handed to the packer directly
PackDigits == {0, 2, 9}

PackGroups == {<<a, b>> : a \in PackDigits, b \in PackDigits}

RECURSIVE Concat(_)
Concat(ss) == IF ss = <<>> THEN <<>> ELSE Head(ss) \o Concat(Tail(ss))

\* the digit strings of even length, at most MaxGroups groups
DigitStrings == {Concat(gs) : gs \in SeqsUpTo(PackGroups, MaxGroups)}

\* moduli handed to the packer directly (all > 25)
PackModuli == {26, 30, 100, 143, 3233}

\* candidates for p and q of a validate_keys call: 2, 3, 5, 7 are prime; 1, 4,
\* 9, 25 are not, and 25 passes a Miller-Rabin round with the bases 7 and 18
KeyCandidates == {1, 2, 3, 4, 5, 7, 9, 25}

\* blocks (value, letter count), exponents and moduli of a call of
\* encrypt_blocks or decrypt_blocks
BlockPool == {<<0, 1>>, <<25, 1>>, <<704, 2>>, <<1111, 2>>}

BlockExponents == {1, 3, 17}

BlockModuli == {26, 3233}

(***************************************************************************)
(* A run: demo_rsa's steps, for p, q, e and a message drawn from the       *)
(* inputs, or the 61, 53, 17 of demo_rsa with "HELLO" or "A"; m = p * q.   *)
(* Variables not yet assigned hold <<>> or 0.                              *)
(***************************************************************************)
NoCall == fn = "none" /\ args = <<>> /\ ret = <<>> /\ mr = <<>> /\ scan = <<>>

\* "HELLO", the message of demo_rsa
HELLO == <<72, 69, 76, 76, 79>>

Init ==
    /\ pc = "start"
    /\ \/ /\ p \in RunPrimes
          /\ q \in RunPrimes
          /\ e \in 1..MaxE
          /\ original_message \in Messages
       \/ /\ p = 61 /\ q = 53 /\ e = 17
          /\ original_message \in {HELLO, <<ordA>>}
    /\ m = p * q
    /\ numeric_repr = <<>>
    /\ blocks = <<>>
    /\ encrypted = <<>>
    /\ phi = 0
    /\ d = 0
    /\ decrypted = <<>>
    /\ reconstructed_numeric = <<>>
    /\ decrypted_message = <<>>
    /\ NoCall

\* numeric_repr = map_text_to_numbers(original_message)
Encode ==
    /\ pc = "start"
    /\ LET r == map_text_to_numbers(original_message)
       IN  IF r.kind = "raise"
           THEN pc' = r.exc /\ numeric_repr' = numeric_repr
           ELSE pc' = "encoded" /\ numeric_repr' = r.val
    /\ UNCHANGED <<p, q, m, e, original_message, blocks, encrypted, phi, d,
                   decrypted, reconstructed_numeric, decrypted_message, callVars, mr, scan>>

\* blocks = split_into_blocks(numeric_repr, m); the call may never return
Split ==
    /\ pc = "encoded"
    /\ LET r == split_into_blocks(numeric_repr, m)
       IN  IF r.diverges
           THEN pc' = "split_hangs" /\ blocks' = blocks
           ELSE pc' = "packed" /\ blocks' = r.blocks
    /\ UNCHANGED <<p, q, m, e, original_message, numeric_repr, encrypted, phi, d,
                   decrypted, reconstructed_numeric, decrypted_message, callVars, mr, scan>>

\* encrypted = encrypt_blocks(blocks, e, m)
Encrypt ==
    /\ pc = "packed"
    /\ encrypted' = encrypt_blocks(blocks, e, m)
    /\ pc' = "encrypted"
    /\ UNCHANGED <<p, q, m, e, original_message, numeric_repr, blocks, phi, d,
                   decrypted, reconstructed_numeric, decrypted_message, callVars, mr, scan>>

\* is_valid, phi, msg = validate_keys(p, q, m, e); if not is_valid: return
Validate ==
    /\ pc = "encrypted"
    /\ \E p_prime \in is_probable_prime(p), q_prime \in is_probable_prime(q) :
          LET v == validate_keys(p, q, m, e, p_prime, q_prime)
          IN  /\ phi' = v[2]
              /\ pc' = IF v[1] THEN "validated" ELSE "invalid_keys"
    /\ UNCHANGED <<p, q, m, e, original_message, numeric_repr, blocks, encrypted, d,
                   decrypted, reconstructed_numeric, decrypted_message, callVars, mr, scan>>

\* d = modinv(e, phi); assert (e * d) % phi == 1
Derive ==
    /\ pc = "validated"
    /\ LET r == modinv(e, phi)
       IN  IF r.kind = "raise"
           THEN pc' = r.exc /\ d' = d
           ELSE /\ d' = r.val
                /\ pc' = IF PyMod(e * r.val, phi) = 1 THEN "derived"
                         ELSE "AssertionError_d"
    /\ UNCHANGED <<p, q, m, e, original_message, numeric_repr, blocks, encrypted, phi,
                   decrypted, reconstructed_numeric, decrypted_message, callVars, mr, scan>>

\* decrypted = decrypt_blocks(encrypted, d, m)
Decrypt ==
    /\ pc = "derived"
    /\ decrypted' = decrypt_blocks(encrypted, d, m)
    /\ pc' = "decrypted"
    /\ UNCHANGED <<p, q, m, e, original_message, numeric_repr, blocks, encrypted, phi,
                   d, reconstructed_numeric, decrypted_message, callVars, mr, scan>>

\* reconstructed_numeric = reconstruct_numeric_string(decrypted);
\* assert reconstructed_numeric == numeric_repr
Reconstruct ==
    /\ pc = "decrypted"
    /\ reconstructed_numeric' = reconstruct_numeric_string(decrypted)
    /\ pc' = IF reconstructed_numeric' = numeric_repr THEN "reconstructed"
             ELSE "AssertionError_numeric"
    /\ UNCHANGED <<p, q, m, e, original_message, numeric_repr, blocks, encrypted, phi,
                   d, decrypted, decrypted_message, callVars, mr, scan>>

\* decrypted_message = map_numbers_to_text(reconstructed_numeric);
\* assert decrypted_message == original_message
Decode ==
    /\ pc = "reconstructed"
    /\ decrypted_message' = map_numbers_to_text(reconstructed_numeric)
    /\ pc' = IF decrypted_message' = original_message THEN "done"
             ELSE "AssertionError_message"
    /\ UNCHANGED <<p, q, m, e, original_message, numeric_repr, blocks, encrypted, phi,
                   d, decrypted, reconstructed_numeric, callVars, mr, scan>>

Next ==
    \/ Encode
    \/ Split
    \/ Encrypt
    \/ Validate
    \/ Derive
    \/ Decrypt
    \/ Reconstruct
    \/ Decode

Spec == Init /\ [][Next]_vars

(***************************************************************************)
(* Single library calls: Init draws the function and its arguments, the    *)
(* call applies it.  Moduli of modinv and of the exponentiation are >= 1;  *)
(* exponents range over the negative ones too.  (2, 26) is the pair the    *)
(* documentation names as having no inverse.                               *)
(***************************************************************************)
CallInputs ==
    {<<"extended_gcd", <<a, b>>>> : a \in -MaxAbs..MaxAbs, b \in -MaxAbs..MaxAbs}
    \cup {<<"test_extended_gcd", <<a, b>>>> :
             a \in -MaxAbs..MaxAbs, b \in -MaxAbs..MaxAbs}
    \cup {<<"modinv", <<a, mm>>>> : a \in -MaxAbs..MaxAbs, mm \in 1..MaxMod}
    \cup {<<"modinv", <<2, 26>>>>}
    \cup {<<"modular_exponentiation_traced", <<b, x, mm>>>> :
             b \in 0..MaxBase, x \in -2..MaxExp, mm \in 1..MaxMod}
    \cup {<<"pack_unpack", <<s, mm>>>> : s \in DigitStrings, mm \in PackModuli}
    \cup {<<"validate_keys", <<pp, qq, pp * qq + dm, ee>>>> :
             pp \in KeyCandidates, qq \in KeyCandidates, dm \in {0, 1}, ee \in 1..MaxE}
    \cup {<<"validate_keys", <<61, 53, 3233, 17>>>>}
    \cup {<<f, <<bs, x, mm>>>> :
             f \in {"encrypt_blocks", "decrypt_blocks"},
             bs \in SeqsUpTo(BlockPool, MaxBlocks), x \in BlockExponents,
             mm \in BlockModuli}

InitCalls ==
    /\ pc = "call"
    /\ \E c \in CallInputs : fn = c[1] /\ args = c[2]
    /\ ret = <<>>
    /\ mr = <<>>
    /\ scan = <<>>
    /\ p = 0 /\ q = 0 /\ m = 0 /\ e = 0 /\ phi = 0 /\ d = 0
    /\ original_message = <<>>
    /\ numeric_repr = <<>>
    /\ blocks = <<>>
    /\ encrypted = <<>>
    /\ decrypted = <<>>
    /\ reconstructed_numeric = <<>>
    /\ decrypted_message = <<>>

Call_extended_gcd ==
    /\ pc = "call" /\ fn = "extended_gcd"
    /\ ret' = Return(extended_gcd(args[1], args[2]))
    /\ pc' = "returned"
    /\ UNCHANGED <<runVars, fn, args, mr, scan>>

Call_test_extended_gcd ==
    /\ pc = "call" /\ fn = "test_extended_gcd"
    /\ ret' = Return(test_extended_gcd(args[1], args[2]))
    /\ pc' = "returned"
    /\ UNCHANGED <<runVars, fn, args, mr, scan>>

Call_modinv ==
    /\ pc = "call" /\ fn = "modinv"
    /\ ret' = modinv(args[1], args[2])
    /\ pc' = "returned"
    /\ UNCHANGED <<runVars, fn, args, mr, scan>>

Call_modular_exponentiation_traced ==
    /\ pc = "call" /\ fn = "modular_exponentiation_traced"
    /\ ret' = modular_exponentiation_traced(args[1], args[2], args[3])
    /\ pc' = "returned"
    /\ UNCHANGED <<runVars, fn, args, mr, scan>>

\* reconstruct_numeric_string(split_into_blocks(s, modulus)); the packer may hang
Call_pack_unpack ==
    /\ pc = "call" /\ fn = "pack_unpack"
    /\ LET r == split_into_blocks(args[1], args[2])
       IN  IF r.diverges
           THEN pc' = "hangs" /\ ret' = ret
           ELSE /\ pc' = "returned"
                /\ ret' = Return([blocks |-> r.blocks,
                                  numeric_str |-> reconstruct_numeric_string(r.blocks)])
    /\ UNCHANGED <<runVars, fn, args, mr, scan>>

\* validate_keys(p, q, m, e): is_probable_prime(q) is asked only when p passed;
\* mr holds the answers given
Call_validate_keys ==
    /\ pc = "call" /\ fn = "validate_keys"
    /\ \E p_prime \in is_probable_prime(args[1]), q_prime \in is_probable_prime(args[2]) :
          /\ ret' = Return(validate_keys(args[1], args[2], args[3], args[4],
                                         p_prime, q_prime))
          /\ mr' = IF p_prime THEN <<p_prime, q_prime>> ELSE <<p_prime>>
    /\ pc' = "returned"
    /\ UNCHANGED <<runVars, fn, args, scan>>

Call_encrypt_blocks ==
    /\ pc = "call" /\ fn = "encrypt_blocks"
    /\ ret' = Return(encrypt_blocks(args[1], args[2], args[3]))
    /\ pc' = "returned"
    /\ UNCHANGED <<runVars, fn, args, mr, scan>>

Call_decrypt_blocks ==
    /\ pc = "call" /\ fn = "decrypt_blocks"
    /\ ret' = Return(decrypt_blocks(args[1], args[2], args[3]))
    /\ pc' = "returned"
    /\ UNCHANGED <<runVars, fn, args, mr, scan>>

NextCalls ==
    \/ Call_extended_gcd
    \/ Call_test_extended_gcd
    \/ Call_modinv
    \/ Call_modular_exponentiation_traced
    \/ Call_pack_unpack
    \/ Call_validate_keys
    \/ Call_encrypt_blocks
    \/ Call_decrypt_blocks

SpecCalls == InitCalls /\ [][NextCalls]_vars

(***************************************************************************)
(* A primality test: is_probable_prime(n, k) step by step.  Init draws the *)
(* candidate n and the round count k; every round draws its base a from    *)
(* random.randrange(2, n - 1), which raises ValueError on an empty range.  *)
(* mr holds the number of rounds passed and the base drawn last.           *)
(***************************************************************************)
\* def is_probable_prime(n, k=10)
DefaultRounds == 10

\* candidates: the small integers, and 53, 61, 100, 3233 = 61 * 53
Candidates == (-2..MaxCandidate) \cup {53, 61, 100, 3233}

RoundCounts == (0..MaxRounds) \cup {DefaultRounds}

InitPrime ==
    /\ pc = "call"
    /\ fn = "is_probable_prime"
    /\ \E n \in Candidates, k \in RoundCounts : args = <<n, k>>
    /\ ret = <<>>
    /\ mr = [i |-> 0, a |-> 0]
    /\ scan = <<>>
    /\ p = 0 /\ q = 0 /\ m = 0 /\ e = 0 /\ phi = 0 /\ d = 0
    /\ original_message = <<>>
    /\ numeric_repr = <<>>
    /\ blocks = <<>>
    /\ encrypted = <<>>
    /\ decrypted = <<>>
    /\ reconstructed_numeric = <<>>
    /\ decrypted_message = <<>>

\* the guards with n < 1 in the place of n < 2
Prime_guards_below_one ==
    /\ pc = "call" /\ fn = "is_probable_prime"
    /\ LET n == args[1]
       IN  IF n < 1 THEN pc' = "returned" /\ ret' = Return(FALSE)
           ELSE IF n = 2 \/ n = 3 THEN pc' = "returned" /\ ret' = Return(TRUE)
           ELSE IF n % 2 = 0 THEN pc' = "returned" /\ ret' = Return(FALSE)
           ELSE pc' = "rounds" /\ ret' = ret
    /\ UNCHANGED <<runVars, fn, args, mr, scan>>

\* n < 2: False; n == 2 or n == 3: True; n % 2 == 0: False; else r, d and the rounds
Prime_guards ==
    /\ pc = "call" /\ fn = "is_probable_prime"
    /\ LET n == args[1]
       IN  IF n < 2 THEN pc' = "returned" /\ ret' = Return(FALSE)
           ELSE IF n = 2 \/ n = 3 THEN pc' = "returned" /\ ret' = Return(TRUE)
           ELSE IF n % 2 = 0 THEN pc' = "returned" /\ ret' = Return(FALSE)
           ELSE pc' = "rounds" /\ ret' = ret
    /\ UNCHANGED <<runVars, fn, args, mr, scan>>

\* one pass of for _ in range(k): a base is drawn; the round passes or returns False
Prime_round ==
    /\ pc = "rounds" /\ mr.i < args[2]
    /\ LET n == args[1]
       IN  IF 2..(n - 2) = {}
           THEN pc' = "returned" /\ ret' = Raise("ValueError") /\ mr' = mr
           ELSE \E a \in 2..(n - 2) :
                    /\ mr' = [i |-> mr.i + 1, a |-> a]
                    /\ IF mr_round(n, a)
                       THEN pc' = pc /\ ret' = ret
                       ELSE pc' = "returned" /\ ret' = Return(FALSE)
    /\ UNCHANGED <<runVars, fn, args, scan>>

\* the k rounds are over: return True
Prime_return ==
    /\ pc = "rounds" /\ mr.i = args[2]
    /\ pc' = "returned"
    /\ ret' = Return(TRUE)
    /\ UNCHANGED <<runVars, fn, args, mr, scan>>

NextPrime ==
    \/ Prime_guards
    \/ Prime_round
    \/ Prime_return

SpecPrime == InitPrime /\ [][NextPrime]_vars

(***************************************************************************)
(* Calls of the codec, of RSA.py and of the tested copy: Init draws the    *)
(* function and a text or a digit string.  Texts are made of 'A', 'Z',     *)
(* 'h', '1', ' ', n-tilde, sharp s and long s; digit strings of the        *)
(* groups over 0, 2, 6, with or without a trailing single digit, and a few *)
(* strings around the group 25.                                            *)
(***************************************************************************)
CodecChars == {65, 90, 104, 49, 32, 241, 223, 383}

CodecTexts == SeqsUpTo(CodecChars, MaxLetters)

DecodeGroups == {<<a, b>> : a \in {0, 2, 6}, b \in {0, 2, 6}}

DecodeStrings ==
    LET even == {Concat(gs) : gs \in SeqsUpTo(DecodeGroups, MaxGroups)}
    IN  even \cup {Append(t, 7) : t \in even}
             \cup {<<2, 5>>, <<2, 5, 2, 6, 0>>, <<9, 9, 0, 7>>, <<2, 6, 2, 5, 2, 4>>}

CodecInputs ==
    {<<f, <<text>>>> : f \in {"map_text_to_numbers", "text_to_numbers"},
                       text \in CodecTexts}
    \cup {<<f, <<numeric_str>>>> : f \in {"map_numbers_to_text", "numbers_to_text"},
                                  numeric_str \in DecodeStrings}

InitCodec ==
    /\ pc = "call"
    /\ \E c \in CodecInputs : fn = c[1] /\ args = c[2]
    /\ ret = <<>>
    /\ mr = <<>>
    /\ scan = <<>>
    /\ p = 0 /\ q = 0 /\ m = 0 /\ e = 0 /\ phi = 0 /\ d = 0
    /\ original_message = <<>>
    /\ numeric_repr = <<>>
    /\ blocks = <<>>
    /\ encrypted = <<>>
    /\ decrypted = <<>>
    /\ reconstructed_numeric = <<>>
    /\ decrypted_message = <<>>

Call_map_text_to_numbers ==
    /\ pc = "call" /\ fn = "map_text_to_numbers"
    /\ ret' = map_text_to_numbers(args[1])
    /\ pc' = "returned"
    /\ UNCHANGED <<runVars, fn, args, mr, scan>>

Call_text_to_numbers ==
    /\ pc = "call" /\ fn = "text_to_numbers"
    /\ ret' = Return(text_to_numbers(args[1]))
    /\ pc' = "returned"
    /\ UNCHANGED <<runVars, fn, args, mr, scan>>

Call_map_numbers_to_text ==
    /\ pc = "call" /\ fn = "map_numbers_to_text"
    /\ ret' = Return(map_numbers_to_text(args[1]))
    /\ pc' = "returned"
    /\ UNCHANGED <<runVars, fn, args, mr, scan>>

Call_numbers_to_text ==
    /\ pc = "call" /\ fn = "numbers_to_text"
    /\ ret' = Return(numbers_to_text(args[1]))
    /\ pc' = "returned"
    /\ UNCHANGED <<runVars, fn, args, mr, scan>>

NextCodec ==
    \/ Call_map_text_to_numbers
    \/ Call_text_to_numbers
    \/ Call_map_numbers_to_text
    \/ Call_numbers_to_text

SpecCodec == InitCodec /\ [][NextCodec]_vars

(***************************************************************************)
(* The affine cipher, as demo_afin uses it: cifrado = afin_encrypt(        *)
(* mensaje, a, b), then descifrado = afin_decrypt(cifrado, a, b).  Init    *)
(* draws the message (letters A-Z: short texts, "HELLO" and the whole      *)
(* alphabet) and the keys; ret holds the outcomes of the calls made so     *)
(* far.                                                                    *)
(***************************************************************************)
Alphabet == [k \in 1..26 |-> ordA + k - 1]

AfinTexts == SeqsUpTo({65, 72, 90}, MaxLetters) \cup {HELLO, Alphabet}

InitAfin ==
    /\ pc = "call"
    /\ fn = "demo_afin"
    /\ \E mensaje \in AfinTexts, a \in -MaxKey..MaxKey, b \in -MaxKey..MaxKey :
          args = <<mensaje, a, b>>
    /\ ret = <<>>
    /\ mr = <<>>
    /\ scan = <<>>
    /\ p = 0 /\ q = 0 /\ m = 0 /\ e = 0 /\ phi = 0 /\ d = 0
    /\ original_message = <<>>
    /\ numeric_repr = <<>>
    /\ blocks = <<>>
    /\ encrypted = <<>>
    /\ decrypted = <<>>
    /\ reconstructed_numeric = <<>>
    /\ decrypted_message = <<>>

\* cifrado = afin_encrypt(mensaje, a, b); a ValueError ends the demonstration
Afin_encrypt ==
    /\ pc = "call" /\ fn = "demo_afin"
    /\ LET cifrado == afin_encrypt(args[1], args[2], args[3])
       IN  /\ ret' = <<cifrado>>
           /\ pc' = IF cifrado.kind = "raise" THEN cifrado.exc ELSE "afin_encrypted"
    /\ UNCHANGED <<runVars, fn, args, mr, scan>>

\* descifrado = afin_decrypt(cifrado, a, b)
Afin_decrypt ==
    /\ pc = "afin_encrypted"
    /\ LET descifrado == afin_decrypt(ret[1].val, args[2], args[3])
       IN  /\ ret' = <<ret[1], descifrado>>
           /\ pc' = IF descifrado.kind = "raise" THEN descifrado.exc
                    ELSE "afin_decrypted"
    /\ UNCHANGED <<runVars, fn, args, mr, scan>>

NextAfin ==
    \/ Afin_encrypt
    \/ Afin_decrypt

SpecAfin == InitAfin /\ [][NextAfin]_vars

(***************************************************************************)
(* split_into_blocks pass by pass.  Init draws the digit string (of even   *)
(* or odd length) and the modulus; blocks and scan.i are the blocks and    *)
(* the index i of the source, scan.passes counts the passes of the outer   *)
(* while (up to MaxPasses: a pass that changes neither i nor blocks is     *)
(* repeated for ever).                                                     *)
(***************************************************************************)
\* moduli of the packer: above 25 (26, 30, 3233) and within the letter groups (1, 22)
PackerModuli == {1, 22, 26, 30, 3233}

\* groups that stand for letters (00, 02, 22) and groups that do not (29, 99)
PackerGroups == {<<0, 0>>, <<0, 2>>, <<2, 2>>, <<2, 9>>, <<9, 9>>}

\* digit strings of at most MaxGroups groups, with and without a trailing digit
PackerEvenStrings == {Concat(gs) : gs \in SeqsUpTo(PackerGroups, MaxGroups)}
PackerStrings == PackerEvenStrings \cup {Append(t, 7) : t \in PackerEvenStrings}

\* split_into_blocks(numeric_str, modulus) is called: blocks = [], i = 0
InitPacker ==
    /\ pc = "scan"
    /\ fn = "split_into_blocks"
    /\ \E numeric_str \in PackerStrings, modulus \in PackerModuli :
          args = <<numeric_str, modulus>>
    /\ ret = <<>>
    /\ mr = <<>>
    /\ scan = [i |-> 0, passes |-> 0]
    /\ blocks = <<>>
    /\ p = 0 /\ q = 0 /\ m = 0 /\ e = 0 /\ phi = 0 /\ d = 0
    /\ original_message = <<>>
    /\ numeric_repr = <<>>
    /\ encrypted = <<>>
    /\ decrypted = <<>>
    /\ reconstructed_numeric = <<>>
    /\ decrypted_message = <<>>

\* a pass that steps over a group that does not fit, in the place of repeating it
Packer_pass_skipping_unfit_group ==
    /\ pc = "scan" /\ scan.i < Len(args[1])
    /\ \E r \in {split_inner(args[1], args[2], scan.i, <<>>, 0)} :
           /\ blocks' = IF r.current_block # <<>>
                        THEN Append(blocks, <<int(r.current_block), r.letters_count>>)
                        ELSE blocks
           /\ scan' = [i |-> IF r.current_block # <<>> THEN r.i ELSE r.i + 2,
                       passes |-> IF scan.passes < MaxPasses THEN scan.passes + 1
                                  ELSE scan.passes]
    /\ UNCHANGED <<pc, p, q, m, e, original_message, numeric_repr, encrypted, phi, d,
                   decrypted, reconstructed_numeric, decrypted_message, callVars, mr>>

\* one pass of the outer while: the inner while, then if current_block: append
Packer_pass ==
    /\ pc = "scan" /\ scan.i < Len(args[1])
    /\ \E r \in {split_inner(args[1], args[2], scan.i, <<>>, 0)} :
           /\ blocks' = IF r.current_block # <<>>
                        THEN Append(blocks, <<int(r.current_block), r.letters_count>>)
                        ELSE blocks
           /\ scan' = [i |-> r.i,
                       passes |-> IF scan.passes < MaxPasses THEN scan.passes + 1
                                  ELSE scan.passes]
    /\ UNCHANGED <<pc, p, q, m, e, original_message, numeric_repr, encrypted, phi, d,
                   decrypted, reconstructed_numeric, decrypted_message, callVars, mr>>

\* the outer while is over: return blocks
Packer_return ==
    /\ pc = "scan" /\ scan.i >= Len(args[1])
    /\ pc' = "returned"
    /\ ret' = Return(blocks)
    /\ UNCHANGED <<runVars, fn, args, mr, scan>>

NextPacker ==
    \/ Packer_pass
    \/ Packer_return

SpecPacker == InitPacker /\ [][NextPacker]_vars

\* the loop goes on as long as a pass or the return changes something
SpecPackerFair == SpecPacker /\ WF_vars(NextPacker)

(***************************************************************************)
(* interactive_mode: the menu loop.  The session state is the locals m, e, *)
(* original_message, numeric_repr, blocks, encrypted, p, q, d, phi.  A     *)
(* local is None or holds a value: None is <<>> and a value v is <<v>>.    *)
(* fn is the choice read last and ret the line that the handler printed    *)
(* last.  pc = "menu" when the menu is shown; a call of split_into_blocks  *)
(* that never returns leaves pc = "split_hangs", and an exception that no  *)
(* handler catches ends the session with its name.  The locals decrypted,  *)
(* reconstructed_numeric and decrypted_message of option 4 are printed and *)
(* compared there and read nowhere else: the line printed (ret) tells      *)
(* their outcome.  show_details (option 7) only selects what is printed.   *)
(***************************************************************************)
None == <<>>

Some(v) == <<v>>

\* what int(input()) read: None stands for a text that int() rejects (ValueError)
MenuInts(S) == {None} \cup {Some(n) : n \in S}

MenuModuli == {0, 4, 22, 143, 3233}

MenuExponents == {1, 3, 7}

MenuPrimesP == {2, 9, 11}

MenuPrimesQ == {2, 13}

\* "1", "A", "h", "ZZ"
MenuTexts == {<<49>>, <<65>>, <<104>>, <<90, 90>>}

session == <<m, e, original_message, numeric_repr, blocks, encrypted, p, q, d, phi>>

InitMenu ==
    /\ pc = "menu"
    /\ m = None /\ e = None
    /\ original_message = None
    /\ numeric_repr = None
    /\ blocks = None
    /\ encrypted = None
    /\ p = None /\ q = None /\ d = None /\ phi = None
    /\ decrypted = None /\ reconstructed_numeric = None /\ decrypted_message = None
    /\ fn = "interactive_mode" /\ args = <<>> /\ ret = <<>>
    /\ mr = <<>> /\ scan = <<>>

\* a guard that, when it fails, forgets the private keys as well
Menu_guard_failed_clearing_keys(choice, message) ==
    /\ fn' = choice
    /\ ret' = message
    /\ p' = None /\ q' = None /\ d' = None /\ phi' = None
    /\ UNCHANGED <<pc, m, e, original_message, numeric_repr, blocks, encrypted,
                   decrypted, reconstructed_numeric, decrypted_message, args, mr, scan>>

\* print(message); continue: back to the menu with every local as it was
Menu_guard_failed(choice, message) ==
    /\ fn' = choice
    /\ ret' = message
    /\ UNCHANGED <<pc, runVars, args, mr, scan>>

\* option 1: m and e are read; both are stored, or both become None
Menu_public_keys ==
    /\ pc = "menu"
    /\ \E m_in \in MenuInts(MenuModuli), e_in \in MenuInts(MenuExponents) :
          LET parsed == m_in # None /\ e_in # None
              stored == parsed /\ ~(m_in[1] <= 0 \/ e_in[1] <= 1)
          IN  /\ m' = IF stored THEN m_in ELSE None
              /\ e' = IF stored THEN e_in ELSE None
              /\ ret' = IF stored THEN "Claves publicas guardadas"
                        ELSE IF parsed THEN "m debe ser positivo y e debe ser > 1"
                        ELSE "Ingrese valores numericos validos"
    /\ fn' = "1"
    /\ UNCHANGED <<pc, p, q, original_message, numeric_repr, blocks, encrypted, phi, d,
                   decrypted, reconstructed_numeric, decrypted_message, args, mr, scan>>

\* option 2: the cleaned text is stored and encoded; blocks and encrypted are reset
Menu_message ==
    /\ pc = "menu"
    /\ \E text \in MenuTexts, confirm \in {"s", "n"} :
          LET cleaned == clean_text(text)[1]
              modified == clean_text(text)[2]
              r == map_text_to_numbers(cleaned)
          IN  IF cleaned = <<>>
              THEN Menu_guard_failed("2", "El mensaje debe contener al menos una letra")
              ELSE IF modified /\ confirm # "s"
              THEN Menu_guard_failed("2", "Operacion cancelada")
              ELSE /\ fn' = "2"
                   /\ original_message' = Some(cleaned)
                   /\ IF r.kind = "raise"
                      THEN /\ pc' = r.exc
                           /\ ret' = r.exc
                           /\ UNCHANGED <<numeric_repr, blocks, encrypted>>
                      ELSE /\ pc' = pc
                           /\ ret' = "Mensaje guardado"
                           /\ numeric_repr' = Some(r.val)
                           /\ blocks' = None
                           /\ encrypted' = None
                   /\ UNCHANGED <<p, q, m, e, phi, d, decrypted, reconstructed_numeric,
                                  decrypted_message, args, mr, scan>>

\* option 3: blocks = split_into_blocks(numeric_repr, m);
\* encrypted = encrypt_blocks(blocks, e, m)
Menu_encrypt ==
    /\ pc = "menu"
    /\ IF m = None \/ e = None
       THEN Menu_guard_failed("3", "Primero ingrese las claves publicas (opcion 1)")
       ELSE IF original_message = None
       THEN Menu_guard_failed("3", "Primero ingrese un mensaje (opcion 2)")
       ELSE LET r == split_into_blocks(numeric_repr[1], m[1])
            IN  /\ fn' = "3"
                /\ IF r.diverges
                   THEN /\ pc' = "split_hangs"
                        /\ ret' = "ENCRIPTACION"
                        /\ UNCHANGED <<blocks, encrypted>>
                   ELSE /\ pc' = pc
                        /\ ret' = "Mensaje cifrado"
                        /\ blocks' = Some(r.blocks)
                        /\ encrypted' = Some(encrypt_blocks(r.blocks, e[1], m[1]))
                /\ UNCHANGED <<p, q, m, e, original_message, numeric_repr, phi, d,
                               decrypted, reconstructed_numeric, decrypted_message,
                               args, mr, scan>>

\* option 4 once p and q are read: validate_keys, modinv, the assertion on d,
\* decrypt_blocks, reconstruct_numeric_string, map_numbers_to_text
Menu_decrypt_with(pp, qq) ==
    \E p_prime \in is_probable_prime(pp), q_prime \in is_probable_prime(qq) :
        LET v == IF m = None THEN validate_keys(pp, qq, pp * qq + 1, 0, p_prime, q_prime)
                 ELSE validate_keys(pp, qq, m[1], e[1], p_prime, q_prime)
            r == modinv(e[1], v[2])
            dec == decrypt_blocks(encrypted[1], r.val, m[1])
        IN  IF ~v[1]
            THEN /\ p' = None /\ q' = None /\ d' = None /\ phi' = None
                 /\ ret' = v[3][1]
                 /\ UNCHANGED <<pc, decrypted, reconstructed_numeric, decrypted_message>>
            ELSE /\ p' = Some(pp) /\ q' = Some(qq) /\ phi' = Some(v[2])
                 /\ IF r.kind = "raise"
                    THEN /\ pc' = IF r.exc = "ValueError" THEN pc ELSE r.exc
                         /\ ret' = r.exc
                         /\ UNCHANGED <<d, decrypted, reconstructed_numeric,
                                        decrypted_message>>
                    ELSE /\ d' = Some(r.val)
                         /\ IF PyMod(e[1] * r.val, v[2]) # 1
                            THEN /\ pc' = "AssertionError"
                                 /\ ret' = "AssertionError"
                                 /\ UNCHANGED <<decrypted, reconstructed_numeric,
                                                decrypted_message>>
                            ELSE /\ pc' = pc
                                 /\ ret' = IF Some(map_numbers_to_text(
                                                   reconstruct_numeric_string(dec)))
                                                 = original_message
                                           THEN "Coincide con el mensaje original"
                                           ELSE "NO coincide con el mensaje original"
                                 /\ UNCHANGED <<decrypted, reconstructed_numeric,
                                                decrypted_message>>

\* option 4: refused before any encryption; p is stored as soon as it is read
Menu_decrypt ==
    /\ pc = "menu"
    /\ IF encrypted = None
       THEN Menu_guard_failed("4", "Primero realice la encriptacion (opcion 3)")
       ELSE /\ fn' = "4"
            /\ \E p_in \in MenuInts(MenuPrimesP), q_in \in MenuInts(MenuPrimesQ) :
                  IF p_in = None
                  THEN /\ ret' = "Ingrese valores numericos validos"
                       /\ UNCHANGED <<pc, p, q, d, phi, decrypted, reconstructed_numeric,
                                      decrypted_message>>
                  ELSE IF q_in = None
                  THEN /\ p' = p_in
                       /\ ret' = "Ingrese valores numericos validos"
                       /\ UNCHANGED <<pc, q, d, phi, decrypted, reconstructed_numeric,
                                      decrypted_message>>
                  ELSE Menu_decrypt_with(p_in[1], q_in[1])
            /\ UNCHANGED <<m, e, original_message, numeric_repr, blocks, encrypted,
                           args, mr, scan>>

\* option 5 (as 6 and 7) and any other text: nothing of the session changes
Menu_other ==
    /\ pc = "menu"
    /\ \E choice \in {"5", "x"} :
          /\ fn' = choice
          /\ ret' = IF choice = "x" THEN "Opcion invalida"
                    ELSE "INFORMACION DEL SISTEMA"
    /\ UNCHANGED <<pc, runVars, args, mr, scan>>

\* option 8: break
Menu_exit ==
    /\ pc = "menu"
    /\ pc' = "exit"
    /\ fn' = "8"
    /\ ret' = "Hasta luego"
    /\ UNCHANGED <<runVars, args, mr, scan>>

NextMenu ==
    \/ Menu_public_keys
    \/ Menu_message
    \/ Menu_encrypt
    \/ Menu_decrypt
    \/ Menu_other
    \/ Menu_exit

SpecMenu == InitMenu /\ [][NextMenu]_vars

(***************************************************************************)
(* The tested copy (test_rsa.py) of the pipeline, and the same calls made  *)
(* of RSA.py.  An outcome is Return(v), Raise(x) or Hangs (a call of the   *)
(* packer that never returns).                                             *)
(***************************************************************************)
Hangs == [kind |-> "hangs"]

\* modular_inverse (test_rsa.py): ValueError when the gcd found is not 1, else x % m
modular_inverse(a, mm) ==
    LET r == test_extended_gcd(a, mm)
    IN  IF r[1] # 1 THEN Raise("ValueError")
        ELSE IF mm = 0 THEN Raise("ZeroDivisionError")
        ELSE Return(PyMod(r[2], mm))

\* while exp > 0: multiply on a set bit, square every time, exp >>= 1
RECURSIVE test_modexp_loop(_, _, _, _)
test_modexp_loop(result, base, exp, mod) ==
    IF exp > 0
    THEN test_modexp_loop(IF exp % 2 = 1 THEN PyMod(result * base, mod) ELSE result,
                          PyMod(base * base, mod), exp \div 2, mod)
    ELSE result

\* modular_exponentiation (test_rsa.py)
modular_exponentiation(base, exp, mod) ==
    IF mod = 0 THEN Raise("ZeroDivisionError")
    ELSE Return(test_modexp_loop(1, PyMod(base, mod), exp, mod))

\* split_into_blocks (test_rsa.py): the loop of RSA.py, line for line
test_split_into_blocks(numeric_str, modulus) == split_outer(numeric_str, modulus, 0, <<>>)

\* for block_value, num_letters in blocks: append (block_value^e mod n, num_letters)
RECURSIVE encrypt_message_loop(_, _, _, _)
encrypt_message_loop(encrypted_blocks, rest, ee, n) ==
    IF rest = <<>> THEN Return(encrypted_blocks)
    ELSE LET cipher_value == modular_exponentiation(Head(rest)[1], ee, n)
         IN  IF cipher_value.kind = "raise" THEN cipher_value
             ELSE encrypt_message_loop(
                      Append(encrypted_blocks, <<cipher_value.val, Head(rest)[2]>>),
                      Tail(rest), ee, n)

\* encrypt_message (test_rsa.py)
encrypt_message(plaintext, ee, n) ==
    LET numeric_str == text_to_numbers(plaintext)
        bs == test_split_into_blocks(numeric_str, n)
    IN  IF bs.diverges THEN Hangs ELSE encrypt_message_loop(<<>>, bs.blocks, ee, n)

\* for cipher_value, num_letters in encrypted_blocks:
\*     numeric_str += str(cipher_value^d mod n).zfill(num_letters * 2)
RECURSIVE decrypt_message_loop(_, _, _, _)
decrypt_message_loop(numeric_str, rest, dd, n) ==
    IF rest = <<>> THEN Return(numeric_str)
    ELSE LET block_value == modular_exponentiation(Head(rest)[1], dd, n)
             expected_length == Head(rest)[2] * 2
         IN  IF block_value.kind = "raise" THEN block_value
             ELSE decrypt_message_loop(
                      numeric_str \o zfill(str(block_value.val), expected_length),
                      Tail(rest), dd, n)

\* decrypt_message (test_rsa.py)
decrypt_message(encrypted_blocks, dd, n) ==
    LET numeric_str == decrypt_message_loop(<<>>, encrypted_blocks, dd, n)
    IN  IF numeric_str.kind = "raise" THEN numeric_str
        ELSE Return(numbers_to_text(numeric_str.val))

\* RSA.py: encrypt_blocks(split_into_blocks(map_text_to_numbers(text), n), e, n)
rsa_encrypt(text, ee, n) ==
    LET numeric_repr_ == map_text_to_numbers(text)
        bs == split_into_blocks(numeric_repr_.val, n)
    IN  IF numeric_repr_.kind = "raise" THEN numeric_repr_
        ELSE IF bs.diverges THEN Hangs
        ELSE IF n = 0 /\ bs.blocks # <<>> THEN Raise("ZeroDivisionError")
        ELSE Return(encrypt_blocks(bs.blocks, ee, n))

\* RSA.py: map_numbers_to_text(reconstruct_numeric_string(decrypt_blocks(blocks, d, n)))
rsa_decrypt(encrypted_blocks, dd, n) ==
    IF n = 0 /\ encrypted_blocks # <<>> THEN Raise("ZeroDivisionError")
    ELSE Return(map_numbers_to_text(
                    reconstruct_numeric_string(decrypt_blocks(encrypted_blocks, dd, n))))

CopyChars == {65, 90, 104, 49, 223}

CopyExponents == {0, 1, 3, 17}

CopyModuli == {1, 22, 26, 3233}

CopyInputs ==
    {<<"encrypt_message", <<text, ee, n>>>> :
         text \in SeqsUpTo(CopyChars, MaxLetters), ee \in CopyExponents, n \in CopyModuli}
    \cup {<<"decrypt_message", <<bs, dd, n>>>> :
         bs \in SeqsUpTo(BlockPool, MaxBlocks), dd \in CopyExponents, n \in CopyModuli}
    \cup {<<"modular_inverse", <<a, mm>>>> : a \in (-MaxAbs)..MaxAbs, mm \in 1..MaxMod}

\* one call of the tested copy, and the same call of RSA.py
InitCopy ==
    /\ pc = "call"
    /\ \E c \in CopyInputs : fn = c[1] /\ args = c[2]
    /\ ret = <<>>
    /\ mr = <<>>
    /\ scan = <<>>
    /\ p = 0 /\ q = 0 /\ m = 0 /\ e = 0 /\ phi = 0 /\ d = 0
    /\ original_message = <<>>
    /\ numeric_repr = <<>>
    /\ blocks = <<>>
    /\ encrypted = <<>>
    /\ decrypted = <<>>
    /\ reconstructed_numeric = <<>>
    /\ decrypted_message = <<>>

\* ret = <<outcome of the tested copy, outcome of RSA.py>>
Copy_encrypt_message ==
    /\ pc = "call" /\ fn = "encrypt_message"
    /\ ret' = <<encrypt_message(args[1], args[2], args[3]),
                rsa_encrypt(args[1], args[2], args[3])>>
    /\ pc' = "returned"
    /\ UNCHANGED <<runVars, fn, args, mr, scan>>

Copy_decrypt_message ==
    /\ pc = "call" /\ fn = "decrypt_message"
    /\ ret' = <<decrypt_message(args[1], args[2], args[3]),
                rsa_decrypt(args[1], args[2], args[3])>>
    /\ pc' = "returned"
    /\ UNCHANGED <<runVars, fn, args, mr, scan>>

Copy_modular_inverse ==
    /\ pc = "call" /\ fn = "modular_inverse"
    /\ ret' = <<modular_inverse(args[1], args[2]), modinv(args[1], args[2])>>
    /\ pc' = "returned"
    /\ UNCHANGED <<runVars, fn, args, mr, scan>>

NextCopy ==
    \/ Copy_encrypt_message
    \/ Copy_decrypt_message
    \/ Copy_modular_inverse

SpecCopy == InitCopy /\ [][NextCopy]_vars

(***************************************************************************)
(* Reference notions used by the properties.                               *)
(***************************************************************************)
IsPrime(n) == n >= 2 /\ \A k \in 2..(n - 1) : n % k # 0

\* p and q distinct primes, m their product, e invertible modulo (p-1)(q-1)
ValidRSAKeys ==
    /\ IsPrime(p) /\ IsPrime(q) /\ p # q
    /\ m = p * q
    /\ gcd(e, (p - 1) * (q - 1)) = 1

AlphabeticMessage ==
    \A k \in 1..Len(original_message) : isalpha(original_message[k])

UppercaseMessage ==
    \A k \in 1..Len(original_message) :
        ordA <= original_message[k] /\ original_message[k] <= ordZ

\* the run stopped without recovering the message
RunFailed ==
    pc \in {"TypeError", "split_hangs", "invalid_keys", "ValueError",
            "ZeroDivisionError", "AssertionError_d", "AssertionError_numeric",
            "AssertionError_message"}

\* d has been derived from a key set that validate_keys accepted
AfterDerive ==
    pc \in {"derived", "decrypted", "reconstructed", "done", "AssertionError_d",
            "AssertionError_numeric", "AssertionError_message"}

\* every 2-digit group of the even-length digit string s is below modulus
GroupsBelow(s, modulus) ==
    \A k \in 1..(Len(s) \div 2) : int(SubSeq(s, 2 * k - 1, 2 * k)) < modulus

Returned(f) == fn = f /\ pc = "returned"

\* the steps of a run that has not failed, in order
Stages == <<"start", "encoded", "packed", "encrypted", "validated", "derived",
            "decrypted", "reconstructed", "done">>

\* the run has completed the step that leads to stage, and has not failed since
AtOrAfter(stage) ==
    \E i \in 1..Len(Stages), j \in 1..Len(Stages) :
        Stages[i] = stage /\ Stages[j] = pc /\ i <= j

\* b^n over the integers, with b^0 = 1 for every b (0 included)
RECURSIVE Power(_, _)
Power(b, n) == IF n = 0 THEN 1 ELSE b * Power(b, n - 1)

(***************************************************************************)
(* C1 as stated: for distinct primes p, q, e coprime to (p-1)(q-1) and any *)
(* text of alphabetic characters, the run encrypts, decrypts and recovers  *)
(* exactly the text.  Refuted: a lowercase letter comes back uppercase,    *)
(* and for p * q <= 25 the packer never returns.                           *)
(***************************************************************************)
C1_RoundTripAnyAlphabeticText ==
    (ValidRSAKeys /\ AlphabeticMessage)
        => /\ ~RunFailed
           /\ pc = "done" => decrypted_message = original_message

(***************************************************************************)
(* C1 amended: for distinct primes p, q with p * q > 25, e coprime to      *)
(* (p-1)(q-1) and any text of uppercase letters A-Z, no step of the run    *)
(* fails and the decrypted message (and digit string) is the original.     *)
(***************************************************************************)
C1_RoundTripUppercaseText ==
    (ValidRSAKeys /\ m > 25 /\ UppercaseMessage)
        => /\ ~RunFailed
           /\ pc = "done" => /\ decrypted_message = original_message
                             /\ reconstructed_numeric = numeric_repr

\* C1 witness: a finished run of three letters in two blocks, really encrypted
C1_Witness ==
    /\ pc = "done" /\ ValidRSAKeys /\ m > 25 /\ UppercaseMessage
    /\ Len(original_message) = 3 /\ Len(blocks) = 2
    /\ encrypted # blocks
    /\ decrypted_message = original_message

(***************************************************************************)
(* C3 as stated: once validate_keys has accepted the keys, d = modinv(e,   *)
(* phi) satisfies (e * d) mod phi = 1 and the assertion after the          *)
(* derivation does not fail.  Refuted by the code: p = q = 2 is accepted   *)
(* with phi = 1, d = 0.                                                    *)
(***************************************************************************)
C3_KeyInvariantAfterValidation ==
    AfterDerive => (pc # "AssertionError_d" /\ PyMod(e * d, phi) = 1)

(***************************************************************************)
(* C2 as stated: for any digit string s of even length and any modulus     *)
(* above 25, packing s and unpacking the blocks gives s back.  Refuted: a  *)
(* 2-digit group that is not below the modulus (99 with modulus 26) makes  *)
(* the packer loop for ever.                                               *)
(***************************************************************************)
C2_PackUnpackAnyEvenString ==
    (fn = "pack_unpack" /\ pc # "call" /\ args[2] > 25)
        => (pc = "returned" /\ ret.val.numeric_str = args[1])

(***************************************************************************)
(* C2 amended: for any digit string s of even length whose 2-digit groups  *)
(* are all below the modulus, and any modulus above 25, the packer returns *)
(* and unpacking its blocks (zero-padded to 2 x letter_count digits, in    *)
(* order) gives exactly s.                                                 *)
(***************************************************************************)
C2_PackUnpackGroupsBelowModulus ==
    (fn = "pack_unpack" /\ pc # "call" /\ args[2] > 25
                        /\ GroupsBelow(args[1], args[2]))
        => (pc = "returned" /\ ret.val.numeric_str = args[1])

\* C2 witness: two blocks, the first of two letters whose value needs padding
C2_Witness ==
    /\ Returned("pack_unpack")
    /\ Len(ret.val.blocks) = 2
    /\ ret.val.blocks[1][2] = 2
    /\ Len(str(ret.val.blocks[1][1])) < 4
    /\ ret.val.numeric_str = args[1]

(***************************************************************************)
(* C4 as stated: whenever gcd(a, m) = 1, modinv(a, m) returns x with       *)
(* 0 <= x < m and (a * x) mod m = 1.  Refuted at m = 1: the inverse        *)
(* returned is 0 and (a * 0) mod 1 = 0.                                    *)
(***************************************************************************)
C4_InverseWheneverCoprime ==
    (Returned("modinv") /\ gcd(args[1], args[2]) = 1)
        => /\ ret.kind = "return"
           /\ 0 <= ret.val /\ ret.val < args[2]
           /\ PyMod(args[1] * ret.val, args[2]) = 1

(***************************************************************************)
(* C4 amended: whenever gcd(a, m) = 1 and m >= 2, modinv(a, m) returns x   *)
(* with 0 <= x < m and (a * x) mod m = 1.                                  *)
(***************************************************************************)
C4_InverseWheneverCoprimeModAtLeast2 ==
    (Returned("modinv") /\ gcd(args[1], args[2]) = 1 /\ args[2] >= 2)
        => /\ ret.kind = "return"
           /\ 0 <= ret.val /\ ret.val < args[2]
           /\ PyMod(args[1] * ret.val, args[2]) = 1

\* C4 witness: an inverse that is neither 1 nor a itself, for negative Bezout x
C4_Witness ==
    /\ Returned("modinv") /\ args[2] >= 2 /\ args[1] >= 2
    /\ gcd(args[1], args[2]) = 1
    /\ extended_gcd(args[1], args[2])[2] < 0
    /\ ret.kind = "return" /\ ret.val > 1 /\ ret.val # args[1]

(***************************************************************************)
(* C5: for a modulus m >= 1, modinv(a, m) raises ValueError exactly when   *)
(* gcd(a, m) # 1, and otherwise returns a number; it raises nothing else.  *)
(***************************************************************************)
C5_NoInverseErrorExactlyWhenNotCoprime ==
    Returned("modinv")
        => /\ (ret = Raise("ValueError")) <=> (gcd(args[1], args[2]) # 1)
           /\ (ret.kind = "return") <=> (gcd(args[1], args[2]) = 1)

\* C5 witness: the documented pair a = 2, m = 26
C5_Witness ==
    /\ Returned("modinv") /\ args = <<2, 26>>
    /\ ret = Raise("ValueError")

(***************************************************************************)
(* C6 as stated: for base >= 0, exp >= 0 and mod >= 1 the exponentiation   *)
(* returns (base^exp) mod mod.  Refuted at exp = 0, mod = 1: it returns 1, *)
(* and anything mod 1 is 0.                                                *)
(***************************************************************************)
C6_ModPowIsPowerModulo ==
    (Returned("modular_exponentiation_traced") /\ args[2] >= 0)
        => ret = Return(Power(args[1], args[2]) % args[3])

(***************************************************************************)
(* C6 amended: for base >= 0, exp >= 0 and mod >= 1, except exp = 0 with   *)
(* mod = 1, the exponentiation returns (base^exp) mod mod.                 *)
(***************************************************************************)
C6_ModPowIsPowerModuloExceptZeroExpModOne ==
    (Returned("modular_exponentiation_traced") /\ args[2] >= 0
                                               /\ ~(args[2] = 0 /\ args[3] = 1))
        => ret = Return(Power(args[1], args[2]) % args[3])

\* C6 witness: an exponent of three bits, mixed, and a power far above the modulus
C6_Witness ==
    /\ Returned("modular_exponentiation_traced")
    /\ args[2] = 5 /\ args[1] >= 2 /\ args[3] >= 3
    /\ Power(args[1], args[2]) > args[3] * args[3]
    /\ ret.val > 1

(***************************************************************************)
(* C7: with exponent 0 the exponentiation returns 1, for every base >= 0   *)
(* (0 included) and every modulus >= 1 (1 included).                       *)
(***************************************************************************)
C7_ModPowExponentZeroIsOne ==
    (Returned("modular_exponentiation_traced") /\ args[2] = 0) => ret = Return(1)

\* C7 witness: base 0, exponent 0, modulus 1
C7_Witness ==
    /\ Returned("modular_exponentiation_traced")
    /\ args = <<0, 0, 1>> /\ ret = Return(1)

(***************************************************************************)
(* C8 as stated: called with a negative exponent, the exponentiation fails *)
(* with an error and returns no number.  Refuted by the code: it returns 1.*)
(***************************************************************************)
C8_NegativeExponentFails ==
    (Returned("modular_exponentiation_traced") /\ args[2] < 0) => ret.kind = "raise"

(***************************************************************************)
(* C9: extended_gcd(a, b) returns (g, x, y) with a * x + b * y = g, for    *)
(* all integers a, b, zero and negative ones included.                     *)
(***************************************************************************)
C9_BezoutIdentity ==
    Returned("extended_gcd")
        => args[1] * ret.val[2] + args[2] * ret.val[3] = ret.val[1]

\* C9 witness: negative a, positive b not dividing it, both coefficients used
C9_Witness ==
    /\ Returned("extended_gcd")
    /\ args[1] < -1 /\ args[2] > 1 /\ PyMod(args[1], args[2]) # 0
    /\ ret.val[2] # 0 /\ ret.val[3] # 0
    /\ args[1] * ret.val[2] + args[2] * ret.val[3] = ret.val[1]

(***************************************************************************)
(* C10 as stated: extended_gcd returns g = gcd(a, b), the non-negative     *)
(* greatest common divisor, and for b = 0 returns (|a|, sign(a), 0).       *)
(* Refuted by the code of RSA.py: its base case returns (a, 1, 0), so a    *)
(* negative g comes back (extended_gcd(-3, 0) = (-3, 1, 0)).               *)
(***************************************************************************)
C10_GcdNonNegativeAndBaseCase ==
    Returned("extended_gcd")
        => /\ ret.val[1] = gcd(args[1], args[2])
           /\ args[2] = 0 =>
                 ret.val = <<Abs(args[1]), IF args[1] >= 0 THEN 1 ELSE -1, 0>>

\* the tested copy of extended_gcd does return the non-negative gcd
TestCopyGcdNonNegative ==
    Returned("test_extended_gcd")
        => /\ ret.val[1] = gcd(args[1], args[2])
           /\ args[1] * ret.val[2] + args[2] * ret.val[3] = ret.val[1]

(***************************************************************************)
(* C11: is_probable_prime returns True for every prime n (2, 3, 53 and 61  *)
(* among them), for every round count and whatever bases the rounds draw:  *)
(* a prime is never rejected.                                              *)
(***************************************************************************)
C11_PrimeNeverRejected ==
    (Returned("is_probable_prime") /\ IsPrime(args[1])) => ret = Return(TRUE)

\* 61 has passed the ten default rounds
C11_Witness ==
    /\ Returned("is_probable_prime")
    /\ args = <<61, DefaultRounds>>
    /\ mr.i = DefaultRounds
    /\ ret = Return(TRUE)

(***************************************************************************)
(* C12 as stated: is_probable_prime returns False for the composites 4,    *)
(* 100 and 3233, whatever bases of 2..n-2 its rounds draw (here: in the    *)
(* ten default rounds).                                                    *)
(***************************************************************************)
C12_CompositesAlwaysRejected ==
    (Returned("is_probable_prime") /\ args[1] \in {4, 100, 3233}
        /\ args[2] = DefaultRounds)
    => ret = Return(FALSE)

\* the bases of 2..3231 on which a round with n = 3233 passes
StrongLiars3233 == {560, 1514, 1719, 2673}

(***************************************************************************)
(* C12 amended: is_probable_prime returns False for 4 and 100 whatever the *)
(* round count and the bases; with n = 3233 a round passes exactly when    *)
(* its base is one of 560, 1514, 1719, 2673, so that False is returned as  *)
(* soon as a round draws any other base, and True when all rounds (at      *)
(* least one) draw one of these four.                                      *)
(***************************************************************************)
C12_CompositesRejectedUnlessStrongLiars ==
    /\ (Returned("is_probable_prime") /\ args[1] \in {4, 100})
       => ret = Return(FALSE)
    /\ (fn = "is_probable_prime" /\ args[1] = 3233 /\ pc \in {"rounds", "returned"}
            /\ mr.i >= 1)
       => /\ (pc = "rounds" \/ ret = Return(TRUE)) <=> mr.a \in StrongLiars3233
          /\ pc = "returned" => ret = Return(mr.i = args[2] /\ mr.a \in StrongLiars3233)

\* 3233 rejected in its third round, after two rounds that passed
C12_Witness ==
    /\ Returned("is_probable_prime")
    /\ args[1] = 3233
    /\ mr.i = 3
    /\ ret = Return(FALSE)

(***************************************************************************)
(* C13: the guard cases do not depend on the random source nor on the      *)
(* round count: n < 2 gives False, 2 and 3 give True, an even n > 2 gives  *)
(* False, all without a base being drawn; for every integer n the call     *)
(* returns a boolean and never raises: whenever a base is to be drawn the  *)
(* range 2..n-2 is not empty.                                              *)
(***************************************************************************)
C13_GuardsDeterministicAndTotal ==
    fn = "is_probable_prime" =>
        /\ pc = "rounds" => 2..(args[1] - 2) # {}
        /\ pc = "returned" =>
              /\ ret.kind = "return" /\ ret.val \in BOOLEAN
              /\ args[1] < 2 => (ret.val = FALSE /\ mr.i = 0)
              /\ args[1] \in {2, 3} => (ret.val = TRUE /\ mr.i = 0)
              /\ (args[1] > 2 /\ args[1] % 2 = 0) => (ret.val = FALSE /\ mr.i = 0)

\* n = 5, the smallest candidate for which bases are drawn (from 2..3)
C13_Witness ==
    /\ Returned("is_probable_prime")
    /\ args = <<5, DefaultRounds>>
    /\ mr.i = DefaultRounds /\ mr.a = 3

\* the bases of 2..n-2 on which a round passes
AcceptedBases(n) == {a \in 2..(n - 2) : mr_round(n, a)}

(***************************************************************************)
(* C14: for every odd composite n, in one round at most one quarter of the *)
(* bases of 2..n-2 are accepted (so that k independent uniform draws all   *)
(* pass with probability at most 4^(-k)).                                  *)
(***************************************************************************)
C14_AtMostAQuarterOfBasesAccepted ==
    (fn = "is_probable_prime" /\ pc = "rounds" /\ ~IsPrime(args[1]))
    => 4 * Cardinality(AcceptedBases(args[1])) <= Cardinality(2..(args[1] - 2))

\* 25 has passed a round with base 7, one of its 2 accepted bases out of 22
C14_Witness ==
    /\ fn = "is_probable_prime" /\ pc = "rounds"
    /\ args[1] = 25
    /\ mr = [i |-> 1, a |-> 7]
    /\ Cardinality(AcceptedBases(25)) = 2

(***************************************************************************)
(* C15: validate_keys checks, in this order, (a) that p and then q pass    *)
(* the primality test, (b) p * q = m, (c) gcd(e, (p-1)(q-1)) = 1; it       *)
(* reports the first check that fails and only that one, with a message    *)
(* of its own that names the offending values, and it reports valid, with  *)
(* phi = (p-1)(q-1), only when all the checks pass.                        *)
(***************************************************************************)
C15_FirstFailingCheckReported ==
    Returned("validate_keys") =>
        LET pp == args[1]
            qq == args[2]
            mm == args[3]
            ee == args[4]
            ph == (pp - 1) * (qq - 1)
            p_ok == mr[1]
            q_ok == p_ok /\ mr[2]
            product_ok == q_ok /\ pp * qq = mm
            gcd_ok == product_ok /\ gcd(ee, ph) = 1
            v == ret.val
        IN  /\ ret.kind = "return"
            /\ ~p_ok => v = <<FALSE, 0, <<"p no parece ser primo", pp>>>>
            /\ (p_ok /\ ~q_ok) => v = <<FALSE, 0, <<"q no parece ser primo", qq>>>>
            /\ (q_ok /\ ~product_ok) => v = <<FALSE, 0, <<"p*q != m", pp * qq, mm>>>>
            /\ (product_ok /\ ~gcd_ok)
               => (~v[1] /\ v[3] = <<"gcd(e, phi) != 1", ee, ph, gcd(ee, ph)>>)
            /\ gcd_ok => v = <<TRUE, ph, <<"Claves validas">>>>
            /\ v[1] <=> gcd_ok
            /\ v[1] => v[2] = ph

\* p = 5 passes, q = 9 does not, and neither the wrong product nor the gcd is reported
C15_Witness ==
    /\ Returned("validate_keys")
    /\ args = <<5, 9, 46, 2>>
    /\ mr = <<TRUE, FALSE>>
    /\ ret = Return(<<FALSE, 0, <<"q no parece ser primo", 9>>>>)

\* the run of demo_rsa: p = 61, q = 53, e = 17, "HELLO"
DemoInput == p = 61 /\ q = 53 /\ e = 17 /\ original_message = HELLO

(***************************************************************************)
(* C16: with p = 61, q = 53, e = 17 the modulus is 3233, phi is 3120 and   *)
(* d is 2753; "HELLO" is encoded as 0704111114, and the encrypted blocks,  *)
(* each value raised to 2753 modulo 3233, zero-padded and decoded, give    *)
(* back "HELLO": the reconstructed digit string equals the original one.   *)
(***************************************************************************)
C16_DemoRoundTrip ==
    DemoInput =>
        /\ m = 3233
        /\ ~RunFailed
        /\ AtOrAfter("encoded") => numeric_repr = <<0, 7, 0, 4, 1, 1, 1, 1, 1, 4>>
        /\ AtOrAfter("validated") => phi = 3120
        /\ AtOrAfter("derived") => d = 2753
        /\ AtOrAfter("decrypted") =>
              /\ Len(decrypted) = Len(encrypted)
              /\ \A k \in 1..Len(encrypted) :
                    decrypted[k] = <<pow(encrypted[k][1], 2753, 3233), encrypted[k][2]>>
        /\ AtOrAfter("reconstructed") =>
              /\ reconstructed_numeric = reconstruct_numeric_string(decrypted)
              /\ reconstructed_numeric = numeric_repr
        /\ pc = "done" => decrypted_message = HELLO

\* demo_rsa has run to its end
C16_Witness ==
    /\ DemoInput
    /\ pc = "done"
    /\ encrypted # blocks
    /\ decrypted_message = HELLO

(***************************************************************************)
(* C17: "A" (digit string 00) with any modulus n > 25 and any exponent     *)
(* e >= 1 is packed into exactly one block of letter count 1 and value 0,  *)
(* which is encrypted to 0; the encrypted block is decrypted to 0, padded  *)
(* to 00 and decoded as "A".                                               *)
(***************************************************************************)
C17_SingleLetterA ==
    (original_message = <<ordA>> /\ m > 25) =>
        /\ pc \notin {"split_hangs", "AssertionError_numeric", "AssertionError_message"}
        /\ AtOrAfter("encoded") => numeric_repr = <<0, 0>>
        /\ AtOrAfter("packed") => blocks = <<<<0, 1>>>>
        /\ AtOrAfter("encrypted") => encrypted = <<<<0, 1>>>>
        /\ AtOrAfter("decrypted") => decrypted = <<<<0, 1>>>>
        /\ AtOrAfter("reconstructed") => reconstructed_numeric = <<0, 0>>
        /\ pc = "done" => decrypted_message = <<ordA>>

\* "A" has gone through the whole run with the smallest modulus, 26 = 2 * 13
C17_Witness ==
    /\ original_message = <<ordA>>
    /\ m = 26 /\ e > 1
    /\ pc = "done"
    /\ decrypted_message = <<ordA>>

\* the function of the call: encrypt_blocks or decrypt_blocks
BlocksFunction(bs, x, mm) ==
    IF fn = "encrypt_blocks" THEN encrypt_blocks(bs, x, mm)
    ELSE decrypt_blocks(bs, x, mm)

\* the blocks bs taken in the order perm: the j-th is bs[perm[j]]
InOrder(bs, perm) == [j \in 1..Len(bs) |-> bs[perm[j]]]

(***************************************************************************)
(* C18: encrypt_blocks and decrypt_blocks return a list as long as their   *)
(* input whose i-th element is (value_i ^ exponent mod n, letter_count_i); *)
(* an output block depends on the input block of the same index only: it   *)
(* is what the function gives for that block alone, and handing over the   *)
(* blocks in any other order and putting the results back by index gives   *)
(* the list of the sequential loop.                                        *)
(***************************************************************************)
C18_BlockwiseIndependent ==
    (Returned("encrypt_blocks") \/ Returned("decrypt_blocks")) =>
        LET bs == args[1]
            x == args[2]
            mm == args[3]
            out == ret.val
        IN  /\ Len(out) = Len(bs)
            /\ \A i \in 1..Len(bs) :
                  /\ out[i] = <<modular_exponentiation_traced(bs[i][1], x, mm).val,
                                bs[i][2]>>
                  /\ out[i][1] = pow(bs[i][1], x, mm)
                  /\ <<out[i]>> = BlocksFunction(<<bs[i]>>, x, mm)
            /\ \A perm \in Permutations(1..Len(bs)) :
                  LET outp == BlocksFunction(InOrder(bs, perm), x, mm)
                  IN  \A j \in 1..Len(bs) : outp[j] = out[perm[j]]

\* three different blocks encrypted with e = 17 modulo 3233
C18_Witness ==
    /\ Returned("encrypt_blocks")
    /\ args = <<<<<<704, 2>>, <<1111, 2>>, <<25, 1>>>>, 17, 3233>>
    /\ ret = Return(<<<<328, 2>>, <<474, 2>>, <<pow(25, 17, 3233), 1>>>>)

\* the letters A-Z of the upper-cased text, in order: the retained letters
RetainedLetters(text) ==
    LET IsAZ(c) == c \in ordA..ordZ
    IN  SelectSeq(upper_text(text), IsAZ)

\* the 2-digit groups of a digit string as numbers
GroupValues(s) == [k \in 1..(Len(s) \div 2) |-> 10 * s[2 * k - 1] + s[2 * k]]

(***************************************************************************)
(* C19 as stated: for any input text the encoder returns a digit string of *)
(* length exactly 2 * (number of retained letters), every 2-digit group is *)
(* in 0..25, the groups are the retained letters in their input order      *)
(* after upper-casing, and a non-alphabetic character contributes nothing. *)
(***************************************************************************)
C19_EncodeOutputInvariant ==
    (Returned("map_text_to_numbers") \/ Returned("text_to_numbers")) =>
        LET letters == RetainedLetters(args[1])
        IN  /\ ret.kind = "return"
            /\ Len(ret.val) = 2 * Len(letters)
            /\ \A k \in 1..Len(letters) :
                  /\ GroupValues(ret.val)[k] \in 0..25
                  /\ GroupValues(ret.val)[k] = letters[k] - ordA

\* the groups of a digit string that are letters, in order
LetterGroups(s) ==
    LET InRange(v) == 0 <= v /\ v <= 25
    IN  SelectSeq(GroupValues(s), InRange)

(***************************************************************************)
(* C20: the decoder takes the digit string two digits at a time, drops a   *)
(* trailing single digit, drops every group outside 00..25 and gives the   *)
(* letter A + value for every other group, in order; it returns for every  *)
(* digit string.                                                           *)
(***************************************************************************)
C20_DecodeOutputInvariant ==
    (Returned("map_numbers_to_text") \/ Returned("numbers_to_text")) =>
        LET kept == LetterGroups(args[1])
        IN  /\ ret.kind = "return"
            /\ Len(ret.val) = Len(kept)
            /\ \A k \in 1..Len(kept) : ret.val[k] = ordA + kept[k]

\* 02 and 20 are decoded (C, U), 26 and the trailing 7 are dropped
C20_Witness ==
    /\ Returned("map_numbers_to_text")
    /\ args = <<<<0, 2, 2, 6, 2, 0, 7>>>>
    /\ ret = Return(<<67, 85>>)

(***************************************************************************)
(* C21: for every a with gcd(a, 26) = 1, every integer b and every text t  *)
(* of letters A-Z, afin_decrypt(afin_encrypt(t, a, b), a, b) = t, where    *)
(* decryption uses a_inv = modular_inverse(a, 26), with (a * a_inv) mod 26 *)
(* = 1, in M = a_inv * (C - b) mod 26.                                     *)
(***************************************************************************)
C21_AffineRoundTrip ==
    (fn = "demo_afin" /\ gcd(args[2], 26) = 1) =>
        /\ pc \in {"call", "afin_encrypted", "afin_decrypted"}
        /\ pc # "call" =>
              /\ ret[1].kind = "return"
              /\ Len(ret[1].val) = Len(args[1])
        /\ pc = "afin_decrypted" =>
              /\ afin_modular_inverse(args[2], 26).kind = "return"
              /\ PyMod(args[2] * afin_modular_inverse(args[2], 26).val, 26) = 1
              /\ ret[2] = Return(args[1])

\* the alphabet has gone through a = -5 (a_inv = 5), b = 30 and come back
C21_Witness ==
    /\ fn = "demo_afin" /\ pc = "afin_decrypted"
    /\ args = <<Alphabet, -5, 30>>
    /\ ret[1].val # args[1]
    /\ ret[2].val = Alphabet

\* the call of the packer in progress: its digit string and its modulus
PackerCall == fn = "split_into_blocks"

\* the number of digits that the first k blocks of bs stand for
RECURSIVE DigitsOf(_, _)
DigitsOf(bs, k) == IF k = 0 THEN 0 ELSE DigitsOf(bs, k - 1) + 2 * bs[k][2]

\* block k of bs lies within the digit string s
BlockWithin(s, bs, k) == bs[k][2] >= 0 /\ DigitsOf(bs, k) <= Len(s)

\* the digits of s that block k of bs stands for: a run of whole groups
BlockDigits(s, bs, k) == SubSeq(s, DigitsOf(bs, k - 1) + 1, DigitsOf(bs, k))

\* the value of the 2-digit group of s that starts after j digits
GroupAt(s, j) == 10 * s[j + 1] + s[j + 2]

(***************************************************************************)
(* C22: every block that split_into_blocks emits has a value that is the   *)
(* numeric parse of a run of whole consecutive 2-digit groups of the       *)
(* input (the runs follow one another from the start of the string up to   *)
(* the position of the scan), a letter count >= 1 that is the number of    *)
(* groups of the run, and a value strictly below the modulus.              *)
(***************************************************************************)
C22_BlockInvariant ==
    PackerCall =>
        /\ DigitsOf(blocks, Len(blocks)) = scan.i
        /\ \A k \in 1..Len(blocks) :
              /\ blocks[k][2] >= 1
              /\ BlockWithin(args[1], blocks, k)
              /\ blocks[k][1] = int(BlockDigits(args[1], blocks, k))
              /\ blocks[k][1] < args[2]
        /\ pc = "returned" => ret = Return(blocks)

\* 022200 with modulus 3233: the blocks (222, 2) and (0, 1)
C22_Witness ==
    /\ PackerCall /\ pc = "returned"
    /\ args = <<<<0, 2, 2, 2, 0, 0>>, 3233>>
    /\ ret = Return(<<<<222, 2>>, <<0, 1>>>>)

\* an even-length digit string with all groups in 0..25, and a modulus > 25
LettersAndLargeModulus ==
    /\ PackerCall
    /\ Len(args[1]) % 2 = 0
    /\ \A k \in 1..(Len(args[1]) \div 2) : GroupAt(args[1], 2 * k - 2) <= 25
    /\ args[2] > 25

(***************************************************************************)
(* C23: for every even-length digit string whose groups are all in 0..25   *)
(* and every modulus > 25, split_into_blocks terminates, every pass of its *)
(* outer loop consumes at least one group (and emits a block), and the     *)
(* blocks returned stand for the whole string: the trailing accumulator is *)
(* emitted as the final block.                                             *)
(***************************************************************************)
C23_PackerTerminates ==
    /\ [][(LettersAndLargeModulus /\ pc = "scan" /\ pc' = "scan")
            => (scan'.i >= scan.i + 2 /\ Len(blocks') = Len(blocks) + 1)]_vars
    /\ []((LettersAndLargeModulus /\ pc = "returned")
            => (ret = Return(blocks) /\ DigitsOf(blocks, Len(blocks)) = Len(args[1])))
    /\ (LettersAndLargeModulus ~> pc = "returned")

\* 022200 with modulus 26: three passes, three blocks, the last one (0, 1)
C23_Witness ==
    /\ LettersAndLargeModulus /\ pc = "returned"
    /\ args = <<<<0, 2, 2, 2, 0, 0>>, 26>>
    /\ scan = [i |-> 6, passes |-> 3]
    /\ ret = Return(<<<<2, 1>>, <<22, 1>>, <<0, 1>>>>)

\* the even-length digit string has a group that is not below the modulus
HasUnfitGroup ==
    /\ PackerCall
    /\ Len(args[1]) % 2 = 0
    /\ \E k \in 1..(Len(args[1]) \div 2) : GroupAt(args[1], 2 * k - 2) >= args[2]

\* the scan stands before a group that is not below the modulus
AtUnfitGroup ==
    /\ PackerCall /\ pc = "scan"
    /\ scan.i + 1 < Len(args[1])
    /\ GroupAt(args[1], scan.i) >= args[2]

(***************************************************************************)
(* C24: if the digit string has a 2-digit group whose value is >= modulus, *)
(* split_into_blocks never returns: the scan reaches that group, and from  *)
(* then on every pass leaves the position and the blocks as they are.  No  *)
(* modulus is rejected: the call never raises.                             *)
(***************************************************************************)
C24_UnfitGroupNeverTerminates ==
    /\ [](HasUnfitGroup => (pc = "scan" /\ ret = <<>>))
    /\ [][AtUnfitGroup => (scan'.i = scan.i /\ blocks' = blocks /\ pc' = "scan")]_vars
    /\ (HasUnfitGroup ~> AtUnfitGroup)

\* 222900 with modulus 26: (22, 1) is emitted, then 29 is tried again and again
C24_Witness ==
    /\ AtUnfitGroup
    /\ args = <<<<2, 2, 2, 9, 0, 0>>, 26>>
    /\ blocks = <<<<22, 1>>>>
    /\ scan = [i |-> 2, passes |-> 4]

(***************************************************************************)
(* C25: for every block emitted by split_into_blocks except the last one,  *)
(* the block's digits followed by the next 2-digit group of the input have *)
(* a numeric value >= modulus: no block stops while the next group fits.   *)
(***************************************************************************)
C25_GreedyMaximal ==
    PackerCall =>
        \A k \in 1..(Len(blocks) - 1) :
            /\ BlockWithin(args[1], blocks, k + 1)
            /\ int(BlockDigits(args[1], blocks, k)
                       \o SubSeq(args[1], DigitsOf(blocks, k) + 1,
                                 DigitsOf(blocks, k) + 2)) >= args[2]

\* 220002 with modulus 30: (22, 1) stops because 2200 >= 30; then (2, 2)
C25_Witness ==
    /\ PackerCall /\ pc = "returned"
    /\ args = <<<<2, 2, 0, 0, 0, 2>>, 30>>
    /\ ret = Return(<<<<22, 1>>, <<2, 2>>>>)

\* a digit string of odd length whose whole groups are in 0..25, and a modulus > 25
OddLengthLetters ==
    /\ PackerCall
    /\ Len(args[1]) % 2 = 1
    /\ \A k \in 1..(Len(args[1]) \div 2) : GroupAt(args[1], 2 * k - 2) <= 25
    /\ args[2] > 25

(***************************************************************************)
(* C29 as stated: for a digit string of odd length (groups in 0..25,       *)
(* modulus > 25) split_into_blocks terminates, every pass emitting a       *)
(* block until the whole groups are used up, and returns the blocks of the *)
(* whole groups, the trailing single digit being ignored.                  *)
(***************************************************************************)
C29_OddLengthIgnoresTrailingDigit ==
    OddLengthLetters =>
        /\ scan.passes = Len(blocks)
        /\ pc = "returned" =>
              ret = Return(split_into_blocks(
                               SubSeq(args[1], 1, Len(args[1]) - 1), args[2]).blocks)

(***************************************************************************)
(* C26 as stated: for every p, q, m, e that validate_keys reports valid,   *)
(* with d = modinv(e, phi), the blocks that split_into_blocks made for the *)
(* modulus m come back from decrypt_blocks(encrypt_blocks(blocks, e, m),   *)
(* d, m) unchanged.                                                        *)
(***************************************************************************)
C26_AcceptedKeysDecrypt ==
    AtOrAfter("decrypted") =>
        /\ encrypted = encrypt_blocks(blocks, e, m)
        /\ decrypted = decrypt_blocks(encrypted, d, m)
        /\ decrypted = blocks

(***************************************************************************)
(* C27 as stated: in interactive_mode, whenever the stored ciphertext      *)
(* encrypted is not None, it is                                            *)
(* encrypt_blocks(split_into_blocks(numeric_repr, m), e, m) for the        *)
(* message and the public keys m, e stored at that moment.                 *)
(***************************************************************************)
C27_SessionCiphertextCurrent ==
    encrypted # None =>
        /\ m # None /\ e # None /\ numeric_repr # None
        /\ ~split_into_blocks(numeric_repr[1], m[1]).diverges
        /\ encrypted = Some(encrypt_blocks(
                                split_into_blocks(numeric_repr[1], m[1]).blocks,
                                e[1], m[1]))

\* the lines that a failed guard of option 3 or of option 4 prints
GuardLines3 == {"Primero ingrese las claves publicas (opcion 1)",
                "Primero ingrese un mensaje (opcion 2)"}

GuardLine4 == "Primero realice la encriptacion (opcion 3)"

(***************************************************************************)
(* C28: in interactive_mode, option 3 changes blocks or encrypted only if  *)
(* m, e and a message have all been entered, and option 4 goes on to read  *)
(* and validate p and q only if encrypted is not None (an encryption has   *)
(* been performed); when a guard fails, m, e, the message, numeric_repr,   *)
(* blocks, encrypted, p, q, d and phi are left as they were, the guard's   *)
(* line is printed and the menu is shown again.                            *)
(***************************************************************************)
C28_MenuGuards ==
    [][/\ (fn' = "3" /\ (m = None \/ e = None \/ original_message = None))
            => (UNCHANGED session /\ pc' = "menu" /\ ret' \in GuardLines3)
       /\ (fn' = "3" /\ <<blocks, encrypted>>' # <<blocks, encrypted>>)
            => (m # None /\ e # None /\ original_message # None)
       /\ (fn' = "4" /\ encrypted = None)
            => (UNCHANGED session /\ pc' = "menu" /\ ret' = GuardLine4)
       /\ (fn' = "4" /\ ret' # GuardLine4) => encrypted # None]_vars

\* after a decryption with p = 11, q = 13 a new message resets encrypted;
\* option 4 is then refused and p, q, d, phi are still there
C28_Witness ==
    /\ fn = "4" /\ ret = GuardLine4 /\ pc = "menu"
    /\ encrypted = None /\ blocks = None
    /\ m = Some(143) /\ e = Some(7)
    /\ p = Some(11) /\ q = Some(13) /\ d = Some(103) /\ phi = Some(120)

\* a call of the tested copy has been made together with the call of RSA.py
CopyCall == fn \in {"encrypt_message", "decrypt_message", "modular_inverse"}

(***************************************************************************)
(* C30 as stated: for every text, exponent >= 0 and modulus >= 1 on which  *)
(* both the tested copy and RSA.py terminate, encrypt_message(text, e, n)  *)
(* is encrypt_blocks(split_into_blocks(map_text_to_numbers(text), n), e,   *)
(* n), decrypt_message(blocks, d, n) is                                    *)
(* map_numbers_to_text(reconstruct_numeric_string(decrypt_blocks(blocks,   *)
(* d, n))), and modular_inverse(a, m) and modinv(a, m) give the same value *)
(* or are both an error.                                                   *)
(***************************************************************************)
C30_TestedCopyAgrees ==
    (CopyCall /\ pc = "returned" /\ ret[1] # Hangs /\ ret[2] # Hangs) =>
        /\ ret[1].kind = ret[2].kind
        /\ ret[1].kind = "return" => ret[1].val = ret[2].val

====
